---- MODULE Spec2Model ----
(***************************************************************************)
(* Voice-driven control of a 6-joint arm: the limit policy and the         *)
(* controller thread of robot_controller.py, and the pending-confirmation  *)
(* gate of Gui_app_Brazo.py fed by the token order of speech_parser.py.    *)
(*                                                                         *)
(* Angles are fixed-point integers in hundredths of a degree (150.0 deg is *)
(* 15000), so that HOME_ANGLES and the 5 deg tolerance are exact; the      *)
(* code's float additions are modelled as exact additions.                 *)
(***************************************************************************)
EXTENDS Integers, Sequences, FiniteSets, TLC

VARIABLES
    \* one call of _validate_relative: its arguments and its return value
    vcall, vret,
    \* RobotController: _running, _q, _last_angles, _home
    running, q, last_angles, home,
    \* the worker thread (_loop): its position, and the locals pairs and base
    \* of _apply_actions / _apply_absolute
    pc, pairs, base,
    \* the caller of stop(): its position inside stop()
    stopPc,
    \* signals: last sig_status, last sig_error kind, last sig_angles pose
    status, sigError, pub,
    \* the driver: the arm's actual pose, the last send_angle(joint, target)
    \* call, the number of send_angle calls, whether send_angles(home) was sent
    arm, driverCmd, ncmd, homeSent,
    \* the outcome of the last two pairs the worker processed (its log lines)
    lastStep, prevStep,
    \* counters that bound a run: batches put, hardware anomalies
    nput, nfault,
    \* MainWindow: _require_confirm, _pending_home, _pending_abs, and the
    \* mode radio buttons ("absolute" when Absoluto is checked)
    require_confirm, pending_home, pending_abs, mode,
    \* the gate before and after each token of the last list _handle_actions
    \* was given, and the number of lists handled
    glog, nutter,
    \* the token lists emitted by the recognizer thread and not yet delivered
    \* to _handle_actions, and what the recognizer did on its last final
    \* transcripts (the mode it read, the MODE it parsed)
    evq, sp,
    \* history of the queue: batches put, batches taken (and by whom), pairs
    \* the worker has gone through, and how many batches that were queued when
    \* stop() was called are still queued, and whether stop() was called
    \* while the batch now in hand was being executed
    enqlog, outlog, proclog, stale, stopMid,
    \* what the read at the start of the batch in hand gave, and whether the
    \* homing step has logged its warning
    batchRd, homeWarn,
    \* one call of _read_angles: what the driver answers try by try, and
    \* what the call returned after how many tries
    rin, rout,
    \* one relative command given to the parser, and the action it produced
    pin, pout,
    \* RobotController across start() and stop() calls: _thr (0 for None) and
    \* where each worker thread created so far is in _loop
    thr, wpc

valVars == <<vcall, vret>>

callVars == <<rin, rout, pin, pout>>

lifeVars == <<thr, wpc>>

fnVars == <<valVars, callVars, lifeVars>>

gateVars == <<require_confirm, pending_home, pending_abs, mode, glog, nutter>>

ctlVars ==
    <<running, q, last_angles, home, pc, pairs, base, stopPc, status, sigError,
      pub, arm, driverCmd, ncmd, homeSent, lastStep, prevStep, nput, nfault>>

\* The controller's variables other than its queue.
ctlVarsNoQ ==
    <<running, last_angles, home, pc, pairs, base, stopPc, status, sigError,
      pub, arm, driverCmd, ncmd, homeSent, lastStep, prevStep, nfault>>

recVars == <<evq, sp>>

histVars == <<enqlog, outlog, proclog, stale, stopMid, batchRd, homeWarn>>

\* All but the variables of the calls of the pure helpers.
otherVars == <<lifeVars, ctlVars, gateVars, recVars, histVars>>

vars == <<fnVars, ctlVars, gateVars, recVars, histVars>>

----------------------------------------------------------------------------
(* robot_controller.py: configuration *)

Joints == 1..6

\* None, as returned where the code returns None (a pose is a 6-tuple).
None == <<>>

HOME_ANGLES == <<11917, -9483, 14835, 2671, -7514, 11759>>

USER_LIMITS ==
    << <<0, 15000>>, <<-12000, 0>>, <<0, 15000>>,
       <<-13500, 13500>>, <<-12000, 12000>>, <<-16000, 16000>> >>

TOLERANCE_DEG == 500

COMMAND_WINDOW ==
    [j \in Joints |->
        <<USER_LIMITS[j][1] - TOLERANCE_DEG, USER_LIMITS[j][2] + TOLERANCE_DEG>>]

\* A plausible slip in _within: only the lower bound is compared.
WithinLowerOnly(lim, ang) ==
    lim[1] <= ang

Within(lim, ang) ==
    lim[1] <= ang /\ ang <= lim[2]

\* A plausible slip in _candidate_final: the delta is stored as the angle.
CandidateFinalNoBase(base_angles, joint, delta) ==
    [base_angles EXCEPT ![joint] = delta]

CandidateFinal(base_angles, joint, delta) ==
    [base_angles EXCEPT ![joint] = base_angles[joint] + delta]

\* A plausible slip in _validate_relative: the correction test of step 3
\* compares the delta's sign the wrong way round.
ValidateRelativeSignSwapped(base_angles, joint, delta) ==
    LET cur_ang == base_angles[joint]
        target  == CandidateFinal(base_angles, joint, delta)
        tgt_ang == target[joint]
        mn      == USER_LIMITS[joint][1]
        mx      == USER_LIMITS[joint][2]
    IN  IF ~Within(USER_LIMITS[joint], tgt_ang)
        THEN [ok |-> FALSE, msg |-> "exceeds", target |-> None]
        ELSE IF Within(USER_LIMITS[joint], cur_ang)
        THEN [ok |-> TRUE, msg |-> "OK", target |-> target]
        ELSE IF Within(COMMAND_WINDOW[joint], cur_ang)
        THEN [ok |-> TRUE, msg |-> "window", target |-> target]
        ELSE IF cur_ang < mn /\ delta < 0
        THEN [ok |-> TRUE, msg |-> "toward", target |-> target]
        ELSE IF cur_ang > mx /\ delta > 0
        THEN [ok |-> TRUE, msg |-> "toward", target |-> target]
        ELSE [ok |-> FALSE, msg |-> "nocorrect", target |-> None]

\* A plausible slip in _validate_relative: the tolerance window is tested
\* before the hard limit on the destination.
ValidateRelativeWindowFirst(base_angles, joint, delta) ==
    LET cur_ang == base_angles[joint]
        target  == CandidateFinal(base_angles, joint, delta)
        tgt_ang == target[joint]
    IN  IF Within(COMMAND_WINDOW[joint], cur_ang)
           /\ Within(COMMAND_WINDOW[joint], tgt_ang)
        THEN [ok |-> TRUE, msg |-> "window", target |-> target]
        ELSE IF ~Within(USER_LIMITS[joint], tgt_ang)
        THEN [ok |-> FALSE, msg |-> "exceeds", target |-> None]
        ELSE [ok |-> TRUE, msg |-> "OK", target |-> target]

\* A plausible slip in _validate_relative: a reading inside the tolerance
\* window is reported with the plain OK reason.
ValidateRelativeNoNotice(base_angles, joint, delta) ==
    LET cur_ang == base_angles[joint]
        target  == CandidateFinal(base_angles, joint, delta)
        tgt_ang == target[joint]
        mn      == USER_LIMITS[joint][1]
        mx      == USER_LIMITS[joint][2]
    IN  IF ~Within(USER_LIMITS[joint], tgt_ang)
        THEN [ok |-> FALSE, msg |-> "exceeds", target |-> None]
        ELSE IF Within(COMMAND_WINDOW[joint], cur_ang)
        THEN [ok |-> TRUE, msg |-> "OK", target |-> target]
        ELSE IF cur_ang < mn /\ delta > 0
        THEN [ok |-> TRUE, msg |-> "toward", target |-> target]
        ELSE IF cur_ang > mx /\ delta < 0
        THEN [ok |-> TRUE, msg |-> "toward", target |-> target]
        ELSE [ok |-> FALSE, msg |-> "nocorrect", target |-> None]

\* A plausible slip in _validate_relative: a reading outside the command
\* window is refused whatever the delta is.
ValidateRelativeRefusesOutside(base_angles, joint, delta) ==
    LET cur_ang == base_angles[joint]
        target  == CandidateFinal(base_angles, joint, delta)
        tgt_ang == target[joint]
    IN  IF ~Within(USER_LIMITS[joint], tgt_ang)
        THEN [ok |-> FALSE, msg |-> "exceeds", target |-> None]
        ELSE IF Within(USER_LIMITS[joint], cur_ang)
        THEN [ok |-> TRUE, msg |-> "OK", target |-> target]
        ELSE IF Within(COMMAND_WINDOW[joint], cur_ang)
        THEN [ok |-> TRUE, msg |-> "window", target |-> target]
        ELSE [ok |-> FALSE, msg |-> "nocorrect", target |-> None]

\* _validate_relative: (ok, msg, target_angles); msg is the kind of reason.
ValidateRelative(base_angles, joint, delta) ==
    LET cur_ang == base_angles[joint]
        target  == CandidateFinal(base_angles, joint, delta)
        tgt_ang == target[joint]
        in_user_now == Within(USER_LIMITS[joint], cur_ang)
        in_cmd_now  == Within(COMMAND_WINDOW[joint], cur_ang)
        mn      == USER_LIMITS[joint][1]
        mx      == USER_LIMITS[joint][2]
    IN  IF ~Within(USER_LIMITS[joint], tgt_ang)
        THEN [ok |-> FALSE, msg |-> "exceeds", target |-> None]
        ELSE IF in_user_now
        THEN [ok |-> TRUE, msg |-> "OK", target |-> target]
        ELSE IF in_cmd_now
        THEN [ok |-> TRUE, msg |-> "window", target |-> target]
        ELSE IF cur_ang < mn /\ delta > 0
        THEN [ok |-> TRUE, msg |-> "toward", target |-> target]
        ELSE IF cur_ang > mx /\ delta < 0
        THEN [ok |-> TRUE, msg |-> "toward", target |-> target]
        ELSE [ok |-> FALSE, msg |-> "nocorrect", target |-> None]

----------------------------------------------------------------------------
(* The limit policy as a function of its arguments: one call of            *)
(* _validate_relative on a base pose, a joint and a delta.                 *)

\* Readings of joint j around both limits and both edges of the window.
Readings(j) ==
    LET mn == USER_LIMITS[j][1]
        mx == USER_LIMITS[j][2]
    IN  { mn - 1000, mn - 501, mn - 500, mn - 1, mn, mn + 1000,
          mx - 800, mx, mx + 1, mx + 200, mx + 500, mx + 501, mx + 1000 }

Deltas == { -2500, -1000, -500, -1, 0, 1, 500, 1000, 2500 }

NoResult == [ok |-> FALSE, msg |-> "pending", target |-> None]

IdleCall == [base |-> HOME_ANGLES, joint |-> 1, delta |-> 0]

ValCalls ==
    { [base |-> [HOME_ANGLES EXCEPT ![j] = a], joint |-> j, delta |-> d] :
        j \in Joints, a \in UNION { Readings(k) : k \in Joints }, d \in Deltas }

InitValIdle ==
    /\ vcall = IdleCall
    /\ vret = NoResult

InitValCalls ==
    /\ vcall \in { c \in ValCalls : c.base[c.joint] \in Readings(c.joint) }
    /\ vret = NoResult

CallValidateRelative ==
    /\ vret = NoResult
    /\ vret' = ValidateRelative(vcall.base, vcall.joint, vcall.delta)
    /\ UNCHANGED vcall

----------------------------------------------------------------------------
(* robot_controller.py: the driver as seen by the controller *)

READ_TRIES == 6

\* What get_angles() returns on one try: whether it is a list or tuple, its
\* elements, and whether float() succeeds on every element.
Reply(vals) == [seq |-> TRUE, vals |-> vals, conv |-> TRUE]

\* get_angles() gave something that is not a list (-1, None).
NoReply == [seq |-> FALSE, vals |-> <<>>, conv |-> FALSE]

\* A plausible slip in _read_angles: a list of six is returned without the
\* conversion of its elements.
ValidReplyNoConversion(ang) == ang.seq /\ Len(ang.vals) = 6

\* The reply the loop returns: a list or tuple of six whose conversion to
\* floats succeeds.
ValidReply(ang) == ang.seq /\ Len(ang.vals) = 6 /\ ang.conv

\* _read_angles(mc), from try i on: replies[i] is what the i-th get_angles()
\* call returns. The result and the number of get_angles() calls made.
RECURSIVE ReadLoop(_, _)
ReadLoop(replies, i) ==
    IF i > READ_TRIES
    THEN [ang |-> None, calls |-> READ_TRIES]
    ELSE IF ValidReply(replies[i])
    THEN [ang |-> replies[i].vals, calls |-> i]
    ELSE ReadLoop(replies, i + 1)

\* _read_angles(mc): the first usable reply within READ_TRIES tries, else
\* None.
ReadAngles(replies) == ReadLoop(replies, 1).ang

\* The read patterns the driver is made to show: every try answers, only the
\* last try answers, no try answers, or get_angles raises.
ReadOutcomes == { "ok", "late", "none", "raise" }

Replies(rd, pose) ==
    [i \in 1..READ_TRIES |->
        IF rd = "ok" \/ (rd = "late" /\ i = READ_TRIES)
        THEN Reply(pose) ELSE NoReply]

\* send_angle outcomes: the call raises, or the arm moves and stops at the
\* target plus an offset (0: it settles at the commanded target).
ArmOffsets == { 0, -100 }

SendOutcomes ==
    { [raise |-> TRUE, off |-> 0] }
        \cup { [raise |-> FALSE, off |-> o] : o \in ArmOffsets }

SendOk == [raise |-> FALSE, off |-> 0]

\* Anomalies a run may spend (each costs one of MaxFaults).
ReadCost(rd) == IF rd = "ok" THEN 0 ELSE 1

SendCost(snd) == IF snd = SendOk THEN 0 ELSE 1

----------------------------------------------------------------------------
(* Bounds of the controller runs *)

MaxPut == 2

MaxFaults == 1

\* Poses the arm may be found in when the controller connects: home, and
\* joint 3 above its limit inside and outside the command window.
ArmPoses ==
    { HOME_ANGLES,
      [HOME_ANGLES EXCEPT ![3] = 15200],
      [HOME_ANGLES EXCEPT ![3] = 16000] }

\* The constructor's home_angles: the default.
HomeChoices == { HOME_ANGLES }

\* Home poses for the runs of the start-up sequence alone: the default, one
\* with joint 3 just above its limit, one with joint 3 far above it and
\* joint 1 below its limit.
BootHomes ==
    { HOME_ANGLES,
      [HOME_ANGLES EXCEPT ![3] = 15200],
      [HOME_ANGLES EXCEPT ![3] = 16000, ![1] = -17000] }

\* Batches the producers enqueue.
RelBatches ==
    { <<>>,
      << <<3, -1000>> >>,
      << <<3, -1000>>, <<3, 1000>> >>,
      << <<3, 500>>, <<2, -2000>> >> }

\* _enqueue_home / _home_clicked: HOME as six absolute pairs.
HomePairs == [i \in Joints |-> <<i, HOME_ANGLES[i]>>]

AbsBatches ==
    { <<>>,
      << <<3, 16000>>, <<2, -3000>> >>,
      << <<3, 15200>>, <<3, 0>> >> }

----------------------------------------------------------------------------
(* RobotController *)

NoStep ==
    [kind |-> "none", joint |-> 0, val |-> 0, res |-> "none",
     before |-> 0, tgt |-> 0, after |-> 0, arm |-> 0, read |-> "unread"]

NoCmd == <<>>

\* __init__ (the worker not started yet); the arm is wherever it was left.
InitCtlIdle ==
    /\ running = FALSE
    /\ q = <<>>
    /\ home = HOME_ANGLES
    /\ last_angles = home
    /\ pc = "idle"
    /\ pairs = <<>>
    /\ base = None
    /\ stopPc = "idle"
    /\ status = "none"
    /\ sigError = "none"
    /\ pub = None
    /\ arm = HOME_ANGLES
    /\ driverCmd = NoCmd
    /\ ncmd = 0
    /\ homeSent = FALSE
    /\ lastStep = NoStep
    /\ prevStep = NoStep
    /\ nput = 0
    /\ nfault = 0

InitCtl ==
    /\ running = FALSE
    /\ q = <<>>
    /\ home \in HomeChoices
    /\ last_angles = home
    /\ pc = "idle"
    /\ pairs = <<>>
    /\ base = None
    /\ stopPc = "idle"
    /\ status = "none"
    /\ sigError = "none"
    /\ pub = None
    /\ arm \in ArmPoses
    /\ driverCmd = NoCmd
    /\ ncmd = 0
    /\ homeSent = FALSE
    /\ lastStep = NoStep
    /\ prevStep = NoStep
    /\ nput = 0
    /\ nfault = 0

\* __init__(home_angles = ...): _last_angles starts as a copy of the home.
InitCtlBoot ==
    /\ running = FALSE
    /\ q = <<>>
    /\ home \in BootHomes
    /\ last_angles = home
    /\ pc = "idle"
    /\ pairs = <<>>
    /\ base = None
    /\ stopPc = "idle"
    /\ status = "none"
    /\ sigError = "none"
    /\ pub = None
    /\ arm \in ArmPoses
    /\ driverCmd = NoCmd
    /\ ncmd = 0
    /\ homeSent = FALSE
    /\ lastStep = NoStep
    /\ prevStep = NoStep
    /\ nput = 0
    /\ nfault = 0

\* start(): launches the worker unless already running.
Start ==
    /\ pc = "idle"
    /\ ~running
    /\ running' = TRUE
    /\ pc' = "connect"
    /\ UNCHANGED <<q, last_angles, home, pairs, base, stopPc, status, sigError,
                   pub, arm, driverCmd, ncmd, homeSent, lastStep, prevStep,
                   nput, nfault>>

\* stop(), first part: clears _running (returns at once if not running).
StopRequest ==
    /\ stopPc = "idle"
    /\ running
    /\ running' = FALSE
    /\ stopPc' = "drain"
    /\ UNCHANGED <<q, last_angles, home, pc, pairs, base, status, sigError,
                   pub, arm, driverCmd, ncmd, homeSent, lastStep, prevStep,
                   nput, nfault>>

\* stop(), the drain loop: one get_nowait() per step until queue.Empty.
StopDrain ==
    /\ stopPc = "drain"
    /\ IF q # <<>>
       THEN q' = Tail(q) /\ stopPc' = stopPc
       ELSE q' = q /\ stopPc' = "join"
    /\ UNCHANGED <<running, last_angles, home, pc, pairs, base, status,
                   sigError, pub, arm, driverCmd, ncmd, homeSent, lastStep,
                   prevStep, nput, nfault>>

\* stop(), join(timeout=2): returns when the worker ended or after 2 s.
StopJoin ==
    /\ stopPc = "join"
    /\ stopPc' = "done"
    /\ UNCHANGED <<running, q, last_angles, home, pc, pairs, base, status,
                   sigError, pub, arm, driverCmd, ncmd, homeSent, lastStep,
                   prevStep, nput, nfault>>

\* A plausible slip in enqueue_actions: the batch is put at the front.
PutActionsFront(queue, ps) ==
    IF ps = <<>> THEN queue
    ELSE << [msg |-> "apply_actions", pairs |-> ps] >> \o queue

\* enqueue_actions(pairs) on a queue: nothing is put for an empty list.
PutActions(queue, ps) ==
    IF ps = <<>> THEN queue
    ELSE Append(queue, [msg |-> "apply_actions", pairs |-> ps])

\* enqueue_absolute(pairs) on a queue: nothing is put for an empty list.
PutAbsolute(queue, ps) ==
    IF ps = <<>> THEN queue
    ELSE Append(queue, [msg |-> "apply_absolute", pairs |-> ps])

\* enqueue_actions(pairs), called on the controller directly.
EnqueueActions(ps) ==
    /\ nput < MaxPut
    /\ q' = PutActions(q, ps)
    /\ nput' = nput + Len(q') - Len(q)
    /\ UNCHANGED <<running, last_angles, home, pc, pairs, base, stopPc, status,
                   sigError, pub, arm, driverCmd, ncmd, homeSent, lastStep,
                   prevStep, nfault>>

\* enqueue_absolute(pairs), called on the controller directly.
EnqueueAbsolute(ps) ==
    /\ nput < MaxPut
    /\ q' = PutAbsolute(q, ps)
    /\ nput' = nput + Len(q') - Len(q)
    /\ UNCHANGED <<running, last_angles, home, pc, pairs, base, stopPc, status,
                   sigError, pub, arm, driverCmd, ncmd, homeSent, lastStep,
                   prevStep, nfault>>

\* A plausible slip in the connection except branch: the "return" is missing
\* and the worker goes on after emitting FAILED.
ConnectFailureContinues ==
    /\ pc = "connect"
    /\ \E ok \in BOOLEAN :
        IF ok
        THEN /\ status' = "CONNECTED"
             /\ pc' = "read_initial"
             /\ UNCHANGED <<running, sigError>>
        ELSE /\ status' = "FAILED"
             /\ sigError' = "FAILED"
             /\ running' = FALSE
             /\ pc' = "read_initial"
    /\ UNCHANGED <<q, last_angles, home, pairs, base, stopPc, pub, arm,
                   driverCmd, ncmd, homeSent, lastStep, prevStep, nput, nfault>>

\* _loop, connection: MyCobot280(port, baud) and power_on() succeed, or one
\* of them raises (FAILED, the worker returns).
Connect ==
    /\ pc = "connect"
    /\ \E ok \in BOOLEAN :
        IF ok
        THEN /\ status' = "CONNECTED"
             /\ pc' = "read_initial"
             /\ UNCHANGED <<running, sigError>>
        ELSE /\ status' = "FAILED"
             /\ sigError' = "FAILED"
             /\ running' = FALSE
             /\ pc' = "exited"
    /\ UNCHANGED <<q, last_angles, home, pairs, base, stopPc, pub, arm,
                   driverCmd, ncmd, homeSent, lastStep, prevStep, nput, nfault>>

\* _emit_angles: a usable reading becomes _last_angles and is published.
\* An exception of get_angles is not caught here.
EmitAngles(rd, next) ==
    LET ang == ReadAngles(Replies(rd, arm))
    IN  /\ nfault + ReadCost(rd) <= MaxFaults
        /\ nfault' = nfault + ReadCost(rd)
        /\ IF rd = "raise"
           THEN pc' = "crashed" /\ UNCHANGED <<last_angles, pub>>
           ELSE /\ pc' = next
                /\ IF ang # None
                   THEN last_angles' = ang /\ pub' = ang
                   ELSE UNCHANGED <<last_angles, pub>>

\* _loop, "Lectura inicial".
ReadInitial ==
    /\ pc = "read_initial"
    /\ \E rd \in ReadOutcomes : EmitAngles(rd, "led")
    /\ UNCHANGED <<running, q, home, pairs, base, stopPc, status, sigError,
                   arm, driverCmd, ncmd, homeSent, lastStep, prevStep, nput>>

\* A plausible slip in the LED except branch: the error is treated like a
\* connection failure.
LedSequenceFatal ==
    /\ pc = "led"
    /\ \E ok \in BOOLEAN :
        /\ sigError' = IF ok THEN sigError ELSE "LED"
        /\ status' = IF ok THEN status ELSE "FAILED"
    /\ pc' = "home"
    /\ UNCHANGED <<running, q, last_angles, home, pairs, base, stopPc,
                   pub, arm, driverCmd, ncmd, homeSent, lastStep, prevStep,
                   nput, nfault>>

\* _loop, LED sequence: done, or set_color raises and "LED error" is emitted.
LedSequence ==
    /\ pc = "led"
    /\ \E ok \in BOOLEAN :
        sigError' = IF ok THEN sigError ELSE "LED"
    /\ pc' = "home"
    /\ UNCHANGED <<running, q, last_angles, home, pairs, base, stopPc, status,
                   pub, arm, driverCmd, ncmd, homeSent, lastStep, prevStep,
                   nput, nfault>>

\* A plausible slip in the home check: the command window is used instead
\* of the limits.
HomeOkWindow == \A j \in Joints : Within(COMMAND_WINDOW[j], home[j])

\* home_ok: every home angle is inside the limits of its joint.
HomeOk == \A j \in Joints : Within(USER_LIMITS[j], home[j])

\* _loop, HOME: skipped with a warning if a home angle is outside its limits;
\* else send_angles(home), wait, _emit_angles. Any exception is "HOME error".
Homing ==
    /\ pc = "home"
    /\ pc' = "listen"
    /\ IF ~HomeOk
       THEN UNCHANGED <<arm, homeSent, last_angles, pub, sigError, nfault>>
       ELSE \E snd \in { s \in SendOutcomes : s.off = 0 }, rd \in ReadOutcomes :
            /\ nfault + SendCost(snd) + ReadCost(rd) <= MaxFaults
            /\ homeSent' = TRUE
            /\ IF snd.raise
               THEN /\ nfault' = nfault + 1
                    /\ rd = "ok"
                    /\ sigError' = "HOME"
                    /\ UNCHANGED <<arm, last_angles, pub>>
               ELSE /\ arm' = home
                    /\ nfault' = nfault + ReadCost(rd)
                    /\ IF rd = "raise"
                       THEN sigError' = "HOME" /\ UNCHANGED <<last_angles, pub>>
                       ELSE /\ sigError' = sigError
                            /\ LET ang == ReadAngles(Replies(rd, home))
                               IN  IF ang # None
                                   THEN last_angles' = ang /\ pub' = ang
                                   ELSE UNCHANGED <<last_angles, pub>>
    /\ UNCHANGED <<running, q, home, pairs, base, stopPc, status, driverCmd,
                   ncmd, lastStep, prevStep, nput>>

\* _loop, "while self._running": the test of the flag.
LoopTest ==
    /\ pc = "listen"
    /\ pc' = IF running THEN "get" ELSE "exited"
    /\ UNCHANGED <<running, q, last_angles, home, pairs, base, stopPc, status,
                   sigError, pub, arm, driverCmd, ncmd, homeSent, lastStep,
                   prevStep, nput, nfault>>

\* A plausible slip in the loop: queue.Empty ends the loop ("break") instead
\* of going back to its test ("continue").
DequeueBreaksOnEmpty ==
    /\ pc = "get"
    /\ IF q = <<>>
       THEN pc' = "exited" /\ UNCHANGED <<q, pairs>>
       ELSE /\ q' = Tail(q)
            /\ pairs' = Head(q).pairs
            /\ pc' = IF Head(q).msg = "apply_actions"
                     THEN "rel_read" ELSE "abs_read"
    /\ UNCHANGED <<running, last_angles, home, base, stopPc, status, sigError,
                   pub, arm, driverCmd, ncmd, homeSent, lastStep, prevStep,
                   nput, nfault>>

\* _loop, self._q.get(timeout=0.1): the head of the queue and its dispatch,
\* or queue.Empty and back to the test.
Dequeue ==
    /\ pc = "get"
    /\ IF q = <<>>
       THEN pc' = "listen" /\ UNCHANGED <<q, pairs>>
       ELSE /\ q' = Tail(q)
            /\ pairs' = Head(q).pairs
            /\ pc' = IF Head(q).msg = "apply_actions"
                     THEN "rel_read" ELSE "abs_read"
    /\ UNCHANGED <<running, last_angles, home, base, stopPc, status, sigError,
                   pub, arm, driverCmd, ncmd, homeSent, lastStep, prevStep,
                   nput, nfault>>

\* A plausible slip in the first line of the batch methods: without a
\* reading the base is the home pose, not the last known pose.
BatchReadHomeFallback(rd) ==
    /\ pc \in { "rel_read", "abs_read" }
    /\ nfault + ReadCost(rd) <= MaxFaults
    /\ nfault' = nfault + ReadCost(rd)
    /\ IF rd = "raise"
       THEN pc' = "crashed" /\ base' = base
       ELSE /\ pc' = IF pc = "rel_read" THEN "rel" ELSE "abs"
            /\ LET ang == ReadAngles(Replies(rd, arm))
               IN  base' = IF ang # None THEN ang ELSE home
    /\ UNCHANGED <<running, q, last_angles, home, pairs, stopPc, status,
                   sigError, pub, arm, driverCmd, ncmd, homeSent, lastStep,
                   prevStep, nput>>

\* The same line, for a given outcome of the read.
BatchReadWith(rd) ==
    /\ pc \in { "rel_read", "abs_read" }
    /\ nfault + ReadCost(rd) <= MaxFaults
    /\ nfault' = nfault + ReadCost(rd)
    /\ IF rd = "raise"
       THEN pc' = "crashed" /\ base' = base
       ELSE /\ pc' = IF pc = "rel_read" THEN "rel" ELSE "abs"
            /\ LET ang == ReadAngles(Replies(rd, arm))
               IN  base' = IF ang # None THEN ang ELSE last_angles
    /\ UNCHANGED <<running, q, last_angles, home, pairs, stopPc, status,
                   sigError, pub, arm, driverCmd, ncmd, homeSent, lastStep,
                   prevStep, nput>>

\* First line of _apply_actions / _apply_absolute:
\* base = _read_angles(mc) or _last_angles. An exception is not caught.
BatchRead == \E rd \in ReadOutcomes : BatchReadWith(rd)

\* The loop over the pairs goes on with the rest, or the batch is done.
AfterPair(loop) ==
    /\ pairs' = Tail(pairs)
    /\ pc' = IF Tail(pairs) = <<>> THEN "listen" ELSE loop
    /\ prevStep' = lastStep

\* A pair that issues no move: "Junta invalida" or "bloqueado" is logged.
SkipPair(kind, joint, val, res) ==
    /\ lastStep' = [kind |-> kind, joint |-> joint, val |-> val, res |-> res,
                    before |-> IF joint \in Joints THEN base[joint] ELSE 0,
                    tgt |-> 0,
                    after |-> IF joint \in Joints THEN base[joint] ELSE 0,
                    arm |-> IF joint \in Joints THEN arm[joint] ELSE 0,
                    read |-> "unread"]
    /\ UNCHANGED <<base, last_angles, pub, arm, driverCmd, ncmd, sigError,
                   nfault>>

\* A plausible slip in the try block: when the read after the move gives
\* nothing, the old base is kept instead of the fallback pose.
MovePairKeepsBase(kind, joint, val, tgt, fallback, errKind) ==
    \E snd \in SendOutcomes, rd \in ReadOutcomes :
        /\ nfault + SendCost(snd) + ReadCost(rd) <= MaxFaults
        /\ nfault' = nfault + SendCost(snd) + ReadCost(rd)
        /\ snd.raise => rd = "ok"
        /\ driverCmd' = <<joint, tgt>>
        /\ ncmd' = ncmd + 1
        /\ arm' = IF snd.raise THEN arm
                  ELSE [arm EXCEPT ![joint] = tgt + snd.off]
        /\ LET ang == ReadAngles(Replies(rd, arm'))
               failed == snd.raise \/ rd = "raise"
               newbase == IF failed THEN base
                          ELSE IF ang # None THEN ang ELSE base
           IN  /\ base' = newbase
               /\ IF failed
                  THEN sigError' = errKind /\ UNCHANGED <<last_angles, pub>>
                  ELSE /\ last_angles' = newbase
                       /\ pub' = newbase
                       /\ sigError' = sigError
               /\ lastStep' =
                    [kind |-> kind, joint |-> joint, val |-> val,
                     res |-> IF failed THEN "error" ELSE "moved",
                     before |-> base[joint], tgt |-> tgt,
                     after |-> newbase[joint], arm |-> arm'[joint],
                     read |-> IF snd.raise THEN "unread" ELSE rd]

\* A plausible slip in the except branch: the failed pair's target is taken
\* as the new base.
MovePairErrorAdoptsTarget(kind, joint, val, tgt, fallback, errKind) ==
    \E snd \in SendOutcomes, rd \in ReadOutcomes :
        /\ nfault + SendCost(snd) + ReadCost(rd) <= MaxFaults
        /\ nfault' = nfault + SendCost(snd) + ReadCost(rd)
        /\ snd.raise => rd = "ok"
        /\ driverCmd' = <<joint, tgt>>
        /\ ncmd' = ncmd + 1
        /\ arm' = IF snd.raise THEN arm
                  ELSE [arm EXCEPT ![joint] = tgt + snd.off]
        /\ LET ang == ReadAngles(Replies(rd, arm'))
               failed == snd.raise \/ rd = "raise"
               newbase == IF failed THEN [base EXCEPT ![joint] = tgt]
                          ELSE IF ang # None THEN ang ELSE fallback
           IN  /\ base' = newbase
               /\ IF failed
                  THEN sigError' = errKind /\ UNCHANGED <<last_angles, pub>>
                  ELSE /\ last_angles' = newbase
                       /\ pub' = newbase
                       /\ sigError' = sigError
               /\ lastStep' =
                    [kind |-> kind, joint |-> joint, val |-> val,
                     res |-> IF failed THEN "error" ELSE "moved",
                     before |-> base[joint], tgt |-> tgt,
                     after |-> newbase[joint], arm |-> arm'[joint],
                     read |-> IF snd.raise THEN "unread" ELSE rd]

\* The try block of both loops: send_angle(joint, tgt, MANUAL_SPEED), the
\* settle wait, base = _read_angles(mc) or fallback, _last_angles = base,
\* sig_angles.emit(base); an exception of either driver call is caught,
\* emitted as a per-joint error, and base is kept.
MovePair(kind, joint, val, tgt, fallback, errKind) ==
    \E snd \in SendOutcomes, rd \in ReadOutcomes :
        /\ nfault + SendCost(snd) + ReadCost(rd) <= MaxFaults
        /\ nfault' = nfault + SendCost(snd) + ReadCost(rd)
        /\ snd.raise => rd = "ok"
        /\ driverCmd' = <<joint, tgt>>
        /\ ncmd' = ncmd + 1
        /\ arm' = IF snd.raise THEN arm
                  ELSE [arm EXCEPT ![joint] = tgt + snd.off]
        /\ LET ang == ReadAngles(Replies(rd, arm'))
               failed == snd.raise \/ rd = "raise"
               newbase == IF failed THEN base
                          ELSE IF ang # None THEN ang ELSE fallback
           IN  /\ base' = newbase
               /\ IF failed
                  THEN sigError' = errKind /\ UNCHANGED <<last_angles, pub>>
                  ELSE /\ last_angles' = newbase
                       /\ pub' = newbase
                       /\ sigError' = sigError
               /\ lastStep' =
                    [kind |-> kind, joint |-> joint, val |-> val,
                     res |-> IF failed THEN "error" ELSE "moved",
                     before |-> base[joint], tgt |-> tgt,
                     after |-> newbase[joint], arm |-> arm'[joint],
                     read |-> IF snd.raise THEN "unread" ELSE rd]

\* A plausible slip in _apply_actions: a blocked pair ends the batch
\* ("break" where the code has "continue").
ApplyActionsPairAborts ==
    /\ pc = "rel"
    /\ pairs # <<>>
    /\ LET joint == Head(pairs)[1]
           delta == Head(pairs)[2]
       IN  IF ~(1 <= joint /\ joint <= 6)
           THEN SkipPair("rel", joint, delta, "invalid") /\ AfterPair("rel")
           ELSE LET v == ValidateRelative(base, joint, delta)
                IN  IF ~v.ok
                    THEN /\ SkipPair("rel", joint, delta, "rejected")
                         /\ pairs' = <<>>
                         /\ pc' = "listen"
                         /\ prevStep' = lastStep
                    ELSE /\ MovePair("rel", joint, delta, v.target[joint],
                                     v.target, "MOVE")
                         /\ AfterPair("rel")
    /\ UNCHANGED <<running, q, home, stopPc, status, homeSent, nput>>

\* _apply_actions: one turn of "for (joint, delta) in pairs".
ApplyActionsPair ==
    /\ pc = "rel"
    /\ pairs # <<>>
    /\ LET joint == Head(pairs)[1]
           delta == Head(pairs)[2]
       IN  IF ~(1 <= joint /\ joint <= 6)
           THEN SkipPair("rel", joint, delta, "invalid")
           ELSE LET v == ValidateRelative(base, joint, delta)
                IN  IF ~v.ok
                    THEN SkipPair("rel", joint, delta, "rejected")
                    ELSE MovePair("rel", joint, delta, v.target[joint],
                                  v.target, "MOVE")
    /\ AfterPair("rel")
    /\ UNCHANGED <<running, q, home, stopPc, status, homeSent, nput>>

\* A plausible slip in _apply_absolute: the target is tested against the
\* tolerance-widened window, as readings are in relative moves.
ApplyAbsolutePairLenient ==
    /\ pc = "abs"
    /\ pairs # <<>>
    /\ LET joint == Head(pairs)[1]
           target == Head(pairs)[2]
       IN  IF ~(1 <= joint /\ joint <= 6)
           THEN SkipPair("abs", joint, target, "invalid")
           ELSE IF ~Within(COMMAND_WINDOW[joint], target)
           THEN SkipPair("abs", joint, target, "rejected")
           ELSE MovePair("abs", joint, target, target, base, "ABS")
    /\ AfterPair("abs")
    /\ UNCHANGED <<running, q, home, stopPc, status, homeSent, nput>>

\* A plausible slip in _apply_absolute: a missing read falls back to the
\* commanded pose, as in the relative loop.
ApplyAbsolutePairTargetFallback ==
    /\ pc = "abs"
    /\ pairs # <<>>
    /\ LET joint == Head(pairs)[1]
           target == Head(pairs)[2]
       IN  IF ~(1 <= joint /\ joint <= 6)
           THEN SkipPair("abs", joint, target, "invalid")
           ELSE IF ~Within(USER_LIMITS[joint], target)
           THEN SkipPair("abs", joint, target, "rejected")
           ELSE MovePair("abs", joint, target, target,
                         [base EXCEPT ![joint] = target], "ABS")
    /\ AfterPair("abs")
    /\ UNCHANGED <<running, q, home, stopPc, status, homeSent, nput>>

\* _apply_absolute: one turn of "for (joint, target) in pairs".
ApplyAbsolutePair ==
    /\ pc = "abs"
    /\ pairs # <<>>
    /\ LET joint == Head(pairs)[1]
           target == Head(pairs)[2]
       IN  IF ~(1 <= joint /\ joint <= 6)
           THEN SkipPair("abs", joint, target, "invalid")
           ELSE IF ~Within(USER_LIMITS[joint], target)
           THEN SkipPair("abs", joint, target, "rejected")
           ELSE MovePair("abs", joint, target, target, base, "ABS")
    /\ AfterPair("abs")
    /\ UNCHANGED <<running, q, home, stopPc, status, homeSent, nput>>

----------------------------------------------------------------------------
(* speech_parser.py: the tokens of one final transcript *)

Modes == { "relative", "absolute" }

\* A semantic token: ("MODE", m), ("HOME",), ("CONFIRM",), ("CANCEL",),
\* ("CONFREQ", bool), ("REL", j, delta), ("ABS", j, target).
Tok(t, arg, j, v) == [t |-> t, arg |-> arg, j |-> j, v |-> v]

\* Bounds of the gate runs: transcripts handled, and global-intent phrases
\* found in one transcript.
MaxUtter == 2

MaxGlobals == 2

\* The motion matches of a transcript, already resolved to (joint, angle)
\* and sorted by position.
MoveLists ==
    { <<>>,
      << <<1, 9000>> >>,
      << <<1, 9000>>, <<2, -3000>> >> }

\* What the regular expressions of parse_commands find in a transcript:
\* which global phrases occur, and the motion matches of the active grammar.
Flag(b) == IF b THEN 1 ELSE 0

NumGlobals(u) ==
    Flag(u.modeWord # "none") + Flag(u.home) + Flag(u.confirm)
        + Flag(u.cancel) + Flag(u.confOn) + Flag(u.confOff)

Utterances ==
    { u \in [ modeWord : { "none", "absoluto", "relativo" },
              home : BOOLEAN, confirm : BOOLEAN, cancel : BOOLEAN,
              confOn : BOOLEAN, confOff : BOOLEAN,
              moves : MoveLists ] :
        NumGlobals(u) <= MaxGlobals }

\* A plausible slip in the order of the checks: CANCEL looked for before
\* CONFIRM.
ParseGlobalsCancelFirst(u) ==
    (IF u.modeWord # "none"
     THEN << Tok("MODE",
                 IF u.modeWord = "absoluto" THEN "absolute" ELSE "relative",
                 0, 0) >>
     ELSE <<>>)
    \o (IF u.home THEN << Tok("HOME", "", 0, 0) >> ELSE <<>>)
    \o (IF u.cancel THEN << Tok("CANCEL", "", 0, 0) >> ELSE <<>>)
    \o (IF u.confirm THEN << Tok("CONFIRM", "", 0, 0) >> ELSE <<>>)
    \o (IF u.confOn THEN << Tok("CONFREQ", "True", 0, 0) >> ELSE <<>>)
    \o (IF u.confOff THEN << Tok("CONFREQ", "False", 0, 0) >> ELSE <<>>)

\* parse_commands, global intents: appended in the order of the checks.
ParseGlobals(u) ==
    (IF u.modeWord # "none"
     THEN << Tok("MODE",
                 IF u.modeWord = "absoluto" THEN "absolute" ELSE "relative",
                 0, 0) >>
     ELSE <<>>)
    \o (IF u.home THEN << Tok("HOME", "", 0, 0) >> ELSE <<>>)
    \o (IF u.confirm THEN << Tok("CONFIRM", "", 0, 0) >> ELSE <<>>)
    \o (IF u.cancel THEN << Tok("CANCEL", "", 0, 0) >> ELSE <<>>)
    \o (IF u.confOn THEN << Tok("CONFREQ", "True", 0, 0) >> ELSE <<>>)
    \o (IF u.confOff THEN << Tok("CONFREQ", "False", 0, 0) >> ELSE <<>>)

\* parse_commands: the global intents, then one ABS token per match in
\* absolute mode ("return out"), one REL token per match in relative mode
\* ("return out + results").
ParseCommands(u, m) ==
    ParseGlobals(u)
    \o [i \in 1..Len(u.moves) |->
          Tok(IF m = "absolute" THEN "ABS" ELSE "REL", "",
              u.moves[i][1], u.moves[i][2])]

----------------------------------------------------------------------------
(* speech_parser.py: the relative grammar and its sign *)

\* Verbs that make the delta negative when no sign is said.
VERBS_NEG ==
    { "decrementa", "baja", "restale", "quita", "reduce", "disminuye" }

\* The alternatives of the verb group of the patterns.
VERBS_ALL ==
    { "mueve", "mover", "gira", "girar", "rota", "rotar", "ajusta", "ajustar",
      "desplaza", "desplazar", "pon", "coloca", "lleva", "incrementa",
      "decrementa", "sumale", "restale", "sube", "baja" }

\* The alternatives of the sign group ("" when no sign is said).
SignTokens == { "", "+", "-", "mas", "menos", "positivo", "negativo" }

\* The four relative patterns: p1 to p3 name the joint first and have an
\* optional verb group, p4 names the angle first and needs a verb.
RelForms == { "p1", "p2", "p3", "p4" }

\* A command as said: the word in front of it ("" if none), the sign token,
\* the digits of the angle (hundredths of a degree) and the joint number.
SaidWords == VERBS_ALL \cup VERBS_NEG \cup { "" }

SaidAngles == { 1000, 4550 }

SaidCommands ==
    [ form : RelForms, word : SaidWords, sign : SignTokens,
      ang : SaidAngles, joint : { 3 } ]

\* m.group("verb") or "": the verb group captures the word in front of the
\* command only if it is one of its alternatives.
VerbGroup(word) == IF word \in VERBS_ALL THEN word ELSE ""

\* Whether the pattern of the command's form matches: p4 starts with a
\* mandatory verb group, the other three match from the joint phrase on.
PatternMatches(c) == c.form = "p4" => c.word \in VERBS_ALL

AbsVal(x) == IF x < 0 THEN -x ELSE x

\* A plausible slip in the sign resolution: the verb is looked at before the
\* sign token.
RelAngleVerbFirst(sign, verb, angle) ==
    IF verb \in VERBS_NEG THEN -AbsVal(angle)
    ELSE IF sign \in { "-", "menos", "negativo" } THEN -AbsVal(angle)
    ELSE AbsVal(angle)

\* The sign of a relative delta: the sign token if there is one, else the
\* verb.
RelAngle(sign, verb, angle) ==
    IF sign \in { "-", "menos", "negativo" } THEN -AbsVal(angle)
    ELSE IF sign \in { "+", "mas", "positivo" } THEN AbsVal(angle)
    ELSE IF verb \in VERBS_NEG THEN -AbsVal(angle)
    ELSE AbsVal(angle)

\* parse_commands in relative mode on one command: the REL token of its
\* match, or nothing when no pattern matches.
ParseRelative(c) ==
    IF PatternMatches(c) /\ 1 <= c.joint /\ c.joint <= 6
    THEN << Tok("REL", "", c.joint,
                RelAngle(c.sign, VerbGroup(c.word), c.ang)) >>
    ELSE << >>

----------------------------------------------------------------------------
(* speech_parser.py: regular expressions over the characters of a text *)

\* Character classes: \d, [a-z], \w and \s (the texts studied hold no other
\* white space than the blank).
Digits == { "0", "1", "2", "3", "4", "5", "6", "7", "8", "9" }

Letters ==
    { "a", "b", "c", "d", "e", "f", "g", "h", "i", "j", "k", "l", "m",
      "n", "o", "p", "q", "r", "s", "t", "u", "v", "w", "x", "y", "z" }

WordChars == Letters \cup Digits \cup { "_" }

Spaces == { " " }

\* The constructs the patterns are written with: a literal, one character of
\* a class, a greedy run of a class of at least lo characters (* and +), the
\* assertion \b, a sequence, an ordered alternation, a greedy optional part
\* and a named group.
RLit(str) == [k |-> "lit", s |-> str, cs |-> {}, a |-> <<>>, lo |-> 0]

ROne(set) == [k |-> "one", s |-> "", cs |-> set, a |-> <<>>, lo |-> 0]

RRun(set, least) ==
    [k |-> "run", s |-> "", cs |-> set, a |-> <<>>, lo |-> least]

RWb == [k |-> "wb", s |-> "", cs |-> {}, a |-> <<>>, lo |-> 0]

RCat(rs) == [k |-> "cat", s |-> "", cs |-> {}, a |-> rs, lo |-> 0]

RAlt(rs) == [k |-> "alt", s |-> "", cs |-> {}, a |-> rs, lo |-> 0]

ROpt(r) == [k |-> "opt", s |-> "", cs |-> {}, a |-> <<r>>, lo |-> 0]

RGrp(name, r) == [k |-> "grp", s |-> name, cs |-> {}, a |-> <<r>>, lo |-> 0]

RWords(ws) == RAlt([i \in 1..Len(ws) |-> RLit(ws[i])])

\* The groups of a match; "" stands for a group that took no part (the
\* parser reads every group as "m.group(name) or ''"). g1 is group(1) of the
\* mode patterns.
NoGroups == [verb |-> "", joint |-> "", sign |-> "", ang |-> "", g1 |-> ""]

\* How many characters of the class follow position i.
RECURSIVE RunLen(_, _, _)
RunLen(s, i, set) ==
    IF i <= Len(s) /\ SubSeq(s, i, i) \in set
    THEN 1 + RunLen(s, i + 1, set)
    ELSE 0

IsWordAt(s, i) == i >= 1 /\ i <= Len(s) /\ SubSeq(s, i, i) \in WordChars

\* The ends a greedy run may stop at, longest first.
RunEnds(i, n, lo, g) ==
    IF n < lo THEN <<>>
    ELSE [c \in 1..(n - lo + 1) |-> [e |-> i + n - c + 1, g |-> g]]

SetGroup(os, name, s, i) ==
    [c \in 1..Len(os) |->
        [e |-> os[c].e,
         g |-> [os[c].g EXCEPT ![name] = SubSeq(s, i, os[c].e - 1)]]]

\* The backtracking matcher of the re module: the ways pattern r matches s
\* from position i, in the order in which the engine tries them. Each way
\* is the position after the match and the groups set so far.
RECURSIVE ReMatch(_, _, _, _)
RECURSIVE ReAlt(_, _, _, _, _)
RECURSIVE ReCat(_, _, _, _)
RECURSIVE ReEach(_, _, _, _)

ReMatch(r, s, i, g) ==
    CASE r.k = "lit" ->
            IF i + Len(r.s) - 1 <= Len(s)
                 /\ SubSeq(s, i, i + Len(r.s) - 1) = r.s
            THEN << [e |-> i + Len(r.s), g |-> g] >>
            ELSE <<>>
      [] r.k = "one" ->
            IF i <= Len(s) /\ SubSeq(s, i, i) \in r.cs
            THEN << [e |-> i + 1, g |-> g] >>
            ELSE <<>>
      [] r.k = "run" -> RunEnds(i, RunLen(s, i, r.cs), r.lo, g)
      [] r.k = "wb" ->
            IF IsWordAt(s, i - 1) # IsWordAt(s, i)
            THEN << [e |-> i, g |-> g] >>
            ELSE <<>>
      [] r.k = "opt" -> ReMatch(r.a[1], s, i, g) \o << [e |-> i, g |-> g] >>
      [] r.k = "alt" -> ReAlt(r.a, 1, s, i, g)
      [] r.k = "cat" -> ReCat(r.a, 1, s, << [e |-> i, g |-> g] >>)
      [] r.k = "grp" -> SetGroup(ReMatch(r.a[1], s, i, g), r.s, s, i)

ReAlt(rs, k, s, i, g) ==
    IF k > Len(rs) THEN <<>>
    ELSE ReMatch(rs[k], s, i, g) \o ReAlt(rs, k + 1, s, i, g)

ReEach(r, s, os, c) ==
    IF c > Len(os) THEN <<>>
    ELSE ReMatch(r, s, os[c].e, os[c].g) \o ReEach(r, s, os, c + 1)

ReCat(rs, k, s, os) ==
    IF k > Len(rs) \/ os = <<>> THEN os
    ELSE ReCat(rs, k + 1, s, ReEach(rs[k], s, os, 1))

\* A match object: start and end (st is the index of the first character,
\* e the index after the last one) and the groups; st = 0 stands for None.
NoMatch == [st |-> 0, e |-> 0, g |-> NoGroups]

\* The leftmost start in lo..hi at which r matches, 0 if there is none (the
\* left half of the range is looked at before the right half).
RECURSIVE FirstStart(_, _, _, _)
LeftOrRight(left, r, s, lo, hi) ==
    IF left # 0 THEN left ELSE FirstStart(r, s, lo, hi)

FirstStart(r, s, lo, hi) ==
    IF lo > hi THEN 0
    ELSE IF lo = hi
    THEN (IF ReMatch(r, s, lo, NoGroups) # <<>> THEN lo ELSE 0)
    ELSE LeftOrRight(FirstStart(r, s, lo, (lo + hi) \div 2),
                     r, s, (lo + hi) \div 2 + 1, hi)

\* The match at a start: the first way the engine finds there.
FirstWay(os, st) == [st |-> st, e |-> os[1].e, g |-> os[1].g]

MatchAt(r, s, st) ==
    IF st = 0 THEN NoMatch ELSE FirstWay(ReMatch(r, s, st, NoGroups), st)

\* re.search from position st: the leftmost start that matches.
ReSearch(r, s, st) == MatchAt(r, s, FirstStart(r, s, st, Len(s) + 1))

\* patt.finditer(s): the matches from left to right, each search starting
\* where the previous match ended.
RECURSIVE FindIter(_, _, _)
ThenRest(m, r, s) ==
    IF m.st = 0 THEN <<>>
    ELSE << m >> \o FindIter(r, s, IF m.e = m.st THEN m.e + 1 ELSE m.e)

FindIter(r, s, st) == ThenRest(ReSearch(r, s, st), r, s)

----------------------------------------------------------------------------
(* speech_parser.py: parse_commands on the text of a transcript *)

MAX_JOINT == 6

UPPER == "ABCDEFGHIJKLMNOPQRSTUVWXYZ"

LOWER == "abcdefghijklmnopqrstuvwxyz"

\* The index of character c in str, 0 if it is not there.
RECURSIVE IndexIn(_, _, _)
IndexIn(str, c, k) ==
    IF k > Len(str) THEN 0
    ELSE IF SubSeq(str, k, k) = c THEN k
    ELSE IndexIn(str, c, k + 1)

IndexOr(k, c) == IF k = 0 THEN c ELSE SubSeq(LOWER, k, k)

LowerChar(c) == IndexOr(IndexIn(UPPER, c, 1), c)

\* str.lower(), character by character (the text is cut in halves).
RECURSIVE StrLower(_)
StrLower(s) ==
    IF Len(s) = 0 THEN ""
    ELSE IF Len(s) = 1 THEN LowerChar(s)
    ELSE StrLower(SubSeq(s, 1, Len(s) \div 2))
            \o StrLower(SubSeq(s, Len(s) \div 2 + 1, Len(s)))

\* str.strip(): the blanks at both ends go.
RECURSIVE StripLeft(_)
StripLeft(s) ==
    IF s # "" /\ Head(s) \in Spaces THEN StripLeft(Tail(s)) ELSE s

RECURSIVE StripRight(_)
StripRight(s) ==
    IF s # "" /\ SubSeq(s, Len(s), Len(s)) \in Spaces
    THEN StripRight(SubSeq(s, 1, Len(s) - 1))
    ELSE s

Strip(s) == StripRight(StripLeft(s))

\* _norm: lower case, stripped. The texts studied are ASCII, on which
\* unidecode changes nothing.
Norm(s) == Strip(StrLower(s))

\* re.sub(r"[,;]", " ", s). (The degree signs replaced just before do not
\* occur in ASCII texts.)
RECURSIVE SubPunct(_)
SubPunct(s) ==
    IF Len(s) = 0 THEN ""
    ELSE IF Len(s) = 1 THEN (IF s \in { ",", ";" } THEN " " ELSE s)
    ELSE SubPunct(SubSeq(s, 1, Len(s) \div 2))
            \o SubPunct(SubSeq(s, Len(s) \div 2 + 1, Len(s)))

\* int(token) of a string of digits.
RECURSIVE DigitsToInt(_)
DigitsToInt(s) ==
    IF s = "" THEN 0
    ELSE 10 * DigitsToInt(SubSeq(s, 1, Len(s) - 1))
            + IndexIn("0123456789", SubSeq(s, Len(s), Len(s)), 1) - 1

\* token.isdigit()
IsDigit(s) == s # "" /\ RunLen(s, 1, Digits) = Len(s)

ORDINALS ==
    "primer" :> 1 @@ "primero" :> 1 @@ "primera" :> 1
    @@ "segundo" :> 2 @@ "segunda" :> 2
    @@ "tercero" :> 3 @@ "tercera" :> 3
    @@ "cuarto" :> 4 @@ "cuarta" :> 4
    @@ "quinto" :> 5 @@ "quinta" :> 5
    @@ "sexto" :> 6 @@ "sexta" :> 6
    @@ "septimo" :> 7 @@ "septima" :> 7
    @@ "octavo" :> 8 @@ "octava" :> 8
    @@ "noveno" :> 9 @@ "novena" :> 9
    @@ "decimo" :> 10 @@ "decima" :> 10

CARDINALS ==
    "un" :> 1 @@ "uno" :> 1 @@ "una" :> 1
    @@ "dos" :> 2 @@ "tres" :> 3 @@ "cuatro" :> 4 @@ "cinco" :> 5
    @@ "seis" :> 6 @@ "siete" :> 7 @@ "ocho" :> 8 @@ "nueve" :> 9
    @@ "diez" :> 10

\* None where an integer is expected.
NoInt == -1

\* dict.get(key)
DictGet(d, key) == IF key \in DOMAIN d THEN d[key] ELSE NoInt

\* a or b, for values that are None or a non-zero integer.
OrElse(a, b) == IF a = NoInt THEN b ELSE a

\* _word_to_int: digits, then the ordinals, then the cardinals.
word_to_int(token) ==
    IF IsDigit(token) THEN DigitsToInt(token)
    ELSE OrElse(DictGet(ORDINALS, token), DictGet(CARDINALS, token))

\* float(ang_str.replace(",", ".")) in hundredths of a degree: the digits
\* before the point, and the first two after it.
PointAt(s) == IF IndexIn(s, ".", 1) # 0 THEN IndexIn(s, ".", 1)
              ELSE IndexIn(s, ",", 1)

Frac2(s) == SubSeq(s \o "00", 1, 2)

AngleOf(s) ==
    IF PointAt(s) = 0 THEN 100 * DigitsToInt(s)
    ELSE 100 * DigitsToInt(SubSeq(s, 1, PointAt(s) - 1))
            + DigitsToInt(Frac2(SubSeq(s, PointAt(s) + 1, Len(s))))

\* The pieces of the patterns.
S0 == RRun(Spaces, 0)

S1 == RRun(Spaces, 1)

VERB ==
    RWords(<< "mueve", "mover", "gira", "girar", "rota", "rotar", "ajusta",
              "ajustar", "desplaza", "desplazar", "pon", "coloca", "lleva",
              "incrementa", "decrementa", "sumale", "restale", "sube",
              "baja" >>)

ART == RWords(<< "la", "el" >>)

Plural(str) == RCat(<< RLit(str), ROpt(RLit("s")) >>)

SYN_WORDS ==
    RAlt(<< Plural("junta"), Plural("eslabone"), Plural("articulacione"),
            Plural("conexione"), Plural("link"), Plural("posicione") >>)

SYN == RAlt(<< SYN_WORDS, RCat(<< RWb, RLit("j"), RWb >>) >>)

NUMJ == RGrp("joint", RAlt(<< RRun(Digits, 1), RRun(Letters, 1) >>))

CONN == ROpt(RCat(<< S0, RWords(<< "a", "en", "hasta", "para" >>), S0 >>))

SIGN ==
    RGrp("sign",
         ROpt(RAlt(<< ROne({ "+", "-" }), RLit("mas"), RLit("menos"),
                      RLit("positivo"), RLit("negativo") >>)))

ANG ==
    RGrp("ang",
         RCat(<< RRun(Digits, 1),
                 ROpt(RCat(<< ROne({ ".", "," }), RRun(Digits, 0) >>)) >>))

DEG == ROpt(RCat(<< S0, Plural("grado") >>))

OptVerb == ROpt(RCat(<< RGrp("verb", VERB), S1 >>))

OptArt == ROpt(RCat(<< ART, S1 >>))

\* A plausible slip in the first absolute pattern: the optional word
\* "pos"/"posicion" in front of the angle is missing.
pANoPositionWord ==
    RCat(<< OptVerb, OptArt, SYN, S1, NUMJ, S0, CONN, OptArt,
            S0, SIGN, S0, ANG, DEG >>)

\* The absolute grammar.
pA ==
    RCat(<< OptVerb, OptArt, SYN, S1, NUMJ, S0, CONN, OptArt,
            ROpt(RCat(<< RLit("pos"), ROpt(RLit("icion")) >>)),
            S0, SIGN, S0, ANG, DEG >>)

pB ==
    RCat(<< OptVerb, RWb, RLit("j"), S0, ROpt(RLit("#")), S0, NUMJ, S0,
            SIGN, S0, ANG, DEG >>)

pC == RCat(<< SIGN, S0, ANG, DEG, S0, CONN, OptArt, SYN, S1, NUMJ >>)

\* The relative grammar.
p1 ==
    RCat(<< OptVerb, OptArt, SYN, S1, NUMJ, S0, CONN, SIGN, S0, ANG, DEG >>)

p2 ==
    RCat(<< OptVerb, NUMJ, S1, OptArt, SYN, S0, CONN, SIGN, S0, ANG, DEG >>)

p3 ==
    RCat(<< OptVerb, RWb, RLit("j"), S0, ROpt(RLit("#")), S0, NUMJ, S0,
            SIGN, S0, ANG, DEG >>)

p4 ==
    RCat(<< RGrp("verb", VERB), S1, SIGN, S0, ANG, DEG, S0, CONN, OptArt,
            SYN, S1, NUMJ >>)

\* The grammars of a mode, in the order in which their matches are
\* collected.
Grammars(m) ==
    IF m = "absolute" THEN << pA, pB, pC >> ELSE << p1, p2, p3, p4 >>

\* matches.extend(list(patt.finditer(s))) for each pattern in turn.
RECURSIVE Collect(_, _, _)
Collect(pats, k, s) ==
    IF k > Len(pats) THEN <<>>
    ELSE FindIter(pats[k], s, 1) \o Collect(pats, k + 1, s)

\* Where a stable sort by start puts one more match: after the matches
\* that start no later.
RECURSIVE InsertByStart(_, _)
InsertByStart(ms, m) ==
    IF ms # <<>> /\ ms[Len(ms)].st > m.st
    THEN InsertByStart(SubSeq(ms, 1, Len(ms) - 1), m) \o << ms[Len(ms)] >>
    ELSE ms \o << m >>

\* A plausible slip: the matches are left in the order of the patterns.
SortMatchesLeftOut(ms) == ms

\* matches.sort(key=lambda m: m.start())
RECURSIVE SortMatches(_)
SortMatches(ms) ==
    IF ms = <<>> THEN <<>>
    ELSE InsertByStart(SortMatches(SubSeq(ms, 1, Len(ms) - 1)), ms[Len(ms)])

\* The joint of a match and the test that lets it through.
JointOf(m) == word_to_int(Strip(m.g.joint))

JointOk(joint) == joint # NoInt /\ 1 <= joint /\ joint <= MAX_JOINT

\* A plausible slip in the absolute branch: the sign rule of the relative
\* branch, which looks at the verb.
AbsAngleWithVerb(sign, verb, angle) == RelAngle(sign, verb, angle)

\* The sign of an absolute target: the sign token only.
AbsAngle(sign, verb, angle) ==
    IF sign \in { "-", "menos", "negativo" } THEN -AbsVal(angle)
    ELSE IF sign \in { "+", "mas", "positivo" } THEN AbsVal(angle)
    ELSE angle

\* out.append(("ABS", joint, angle)) / results.append(("REL", joint, angle))
MotionToken(m, md) ==
    IF md = "absolute"
    THEN Tok("ABS", "", JointOf(m),
             AbsAngle(Strip(m.g.sign), Strip(m.g.verb), AngleOf(m.g.ang)))
    ELSE Tok("REL", "", JointOf(m),
             RelAngle(Strip(m.g.sign), Strip(m.g.verb), AngleOf(m.g.ang)))

\* A plausible slip in the loop over the matches: break where the code has
\* continue.
RECURSIVE MotionTokensBreak(_, _, _)
MotionTokensBreak(ms, k, md) ==
    IF k > Len(ms) THEN <<>>
    ELSE IF ~JointOk(JointOf(ms[k])) THEN <<>>
    ELSE << MotionToken(ms[k], md) >> \o MotionTokensBreak(ms, k + 1, md)

\* The loop over the sorted matches: a match whose joint is None or outside
\* 1..MAX_JOINT is passed over.
RECURSIVE MotionTokens(_, _, _)
MotionTokens(ms, k, md) ==
    IF k > Len(ms) THEN <<>>
    ELSE IF ~JointOk(JointOf(ms[k])) THEN MotionTokens(ms, k + 1, md)
    ELSE << MotionToken(ms[k], md) >> \o MotionTokens(ms, k + 1, md)

\* The patterns of the global intents.
ModeWord == RGrp("g1", RWords(<< "absoluto", "relativo" >>))

reMode1 == RCat(<< RWb, RLit("modo"), S1, ModeWord, RWb >>)

reMode2 ==
    RCat(<< RWb,
            RAlt(<< RCat(<< RLit("cambia"), ROpt(RLit("r")) >>),
                    RCat(<< RLit("pon"), ROpt(RLit("er")) >>),
                    RCat(<< RLit("usa"), ROpt(RLit("r")) >>) >>),
            S1, ROpt(RCat(<< RLit("a"), S1 >>)), ModeWord, RWb >>)

reHome1 ==
    RCat(<< RWb,
            RWords(<< "ir", "ve", "volver", "regresar", "llevar", "poner",
                      "mover" >>),
            S1, ROpt(RCat(<< RLit("a"), S1 >>)),
            RWords(<< "home", "inicio", "origen" >>), RWb >>)

reHome2 == RCat(<< RWb, RLit("posicion"), S1, RLit("inicial"), RWb >>)

Stem(str) == RCat(<< RLit(str), RRun(WordChars, 0) >>)

reConfirm ==
    RCat(<< RWb,
            RAlt(<< Stem("confirm"), Stem("acept"), Stem("ejecut"),
                    Stem("proced"), RLit("adelante"), RLit("dale") >>),
            RWb >>)

reCancel ==
    RCat(<< RWb,
            RAlt(<< Stem("cancel"), Stem("anul"), Stem("rechaz"),
                    RCat(<< RLit("mejor"), S1, RLit("no") >>),
                    RCat(<< RLit("det"), ROne({ "e" }), RLit("n") >>),
                    RLit("para"), RLit("stop") >>),
            RWb >>)

Confirmacion == RCat(<< RLit("confirmaci"), ROne({ "o" }), RLit("n") >>)

reConfOn ==
    RCat(<< RWb, RWords(<< "activar", "habilitar" >>), S1, Confirmacion,
            RWb >>)

reConfOff ==
    RCat(<< RWb, RWords(<< "desactivar", "deshabilitar", "quitar" >>), S1,
            Confirmacion, RWb >>)

\* re.search(patt, s) is not None
Found(r, s) == ReSearch(r, s, 1).st # 0

\* (m1 or m2).group(1), turned into the md it names.
ModeSaid(s) ==
    IF SubSeq((IF Found(reMode1, s)
               THEN ReSearch(reMode1, s, 1)
               ELSE ReSearch(reMode2, s, 1)).g.g1 \o "     ", 1, 5) = "absol"
    THEN "absolute"
    ELSE "relative"

\* A plausible slip: the checks for CONFIRM and CANCEL come before those for
\* MODE and HOME.
GlobalTokensConfirmFirst(s) ==
    (IF Found(reConfirm, s) THEN << Tok("CONFIRM", "", 0, 0) >> ELSE <<>>)
    \o (IF Found(reCancel, s) THEN << Tok("CANCEL", "", 0, 0) >> ELSE <<>>)
    \o (IF Found(reMode1, s) \/ Found(reMode2, s)
        THEN << Tok("MODE", ModeSaid(s), 0, 0) >>
        ELSE <<>>)
    \o (IF Found(reHome1, s) \/ Found(reHome2, s)
        THEN << Tok("HOME", "", 0, 0) >>
        ELSE <<>>)
    \o (IF Found(reConfOn, s) THEN << Tok("CONFREQ", "True", 0, 0) >> ELSE <<>>)
    \o (IF Found(reConfOff, s)
        THEN << Tok("CONFREQ", "False", 0, 0) >>
        ELSE <<>>)

\* The global intents, appended in the order of the checks.
GlobalTokens(s) ==
    (IF Found(reMode1, s) \/ Found(reMode2, s)
     THEN << Tok("MODE", ModeSaid(s), 0, 0) >>
     ELSE <<>>)
    \o (IF Found(reHome1, s) \/ Found(reHome2, s)
        THEN << Tok("HOME", "", 0, 0) >>
        ELSE <<>>)
    \o (IF Found(reConfirm, s) THEN << Tok("CONFIRM", "", 0, 0) >> ELSE <<>>)
    \o (IF Found(reCancel, s) THEN << Tok("CANCEL", "", 0, 0) >> ELSE <<>>)
    \o (IF Found(reConfOn, s) THEN << Tok("CONFREQ", "True", 0, 0) >> ELSE <<>>)
    \o (IF Found(reConfOff, s)
        THEN << Tok("CONFREQ", "False", 0, 0) >>
        ELSE <<>>)

\* The text the patterns are applied to.
Cleaned(text) == SubPunct(Norm(text))

\* The three stages of a call on the cleaned text s: the matches as the
\* patterns find them (found), the matches sorted (ms), and the tokens
\* (acts): the global intents, then the tokens of the motion matches.
ParseTokens(s, md, found, ms) ==
    [acts |-> GlobalTokens(s) \o MotionTokens(ms, 1, md),
     ms |-> ms,
     found |-> found]

ParseSorted(s, md, found) == ParseTokens(s, md, found, SortMatches(found))

ParseCleaned(s, md) == ParseSorted(s, md, Collect(Grammars(md), 1, s))

\* A call of parse_commands with what it went through; an empty text
\* returns at once.
ParseTrace(text, md) ==
    IF text = "" THEN [acts |-> <<>>, ms |-> <<>>, found |-> <<>>]
    ELSE ParseCleaned(Cleaned(text), md)

\* parse_commands(text, mode)
parse_commands(text, md) == ParseTrace(text, md).acts

----------------------------------------------------------------------------
(* Gui_app_Brazo.py: MainWindow._handle_actions *)

\* The handler's view while it runs: rc, ph, pa are _require_confirm,
\* _pending_home, _pending_abs; q is the controller's queue; rel and inst
\* are the locals rel_pairs and abs_pairs_instant.

\* ("MODE", m): the radio buttons.
OnMode(g, act) ==
    [g EXCEPT !.mode = IF act.arg = "absolute" THEN "absolute" ELSE "relative"]

\* _enqueue_home: HOME as one absolute batch of six pairs.
EnqueueHome(queue) == PutAbsolute(queue, HomePairs)

\* A plausible slip in the CONFIRM branch: the pending absolute pairs are
\* sent before the pending HOME.
OnConfirmAbsFirst(g) ==
    LET g1 == IF g.pa # <<>>
              THEN [g EXCEPT !.pa = <<>>, !.q = PutAbsolute(g.q, g.pa)]
              ELSE g
    IN  IF g1.ph
        THEN [g1 EXCEPT !.ph = FALSE, !.q = EnqueueHome(g1.q)]
        ELSE g1

\* A plausible slip in the CONFIRM branch: the pending HOME is sent but its
\* flag is not cleared.
OnConfirmKeepsFlag(g) ==
    LET g1 == IF g.ph
              THEN [g EXCEPT !.q = EnqueueHome(g.q)]
              ELSE g
    IN  IF g1.pa # <<>>
        THEN [g1 EXCEPT !.pa = <<>>, !.q = PutAbsolute(g1.q, g1.pa)]
        ELSE g1

\* ("CONFIRM",): the pending HOME, then the pending absolute pairs.
OnConfirm(g) ==
    LET g1 == IF g.ph
              THEN [g EXCEPT !.ph = FALSE, !.q = EnqueueHome(g.q)]
              ELSE g
    IN  IF g1.pa # <<>>
        THEN [g1 EXCEPT !.pa = <<>>, !.q = PutAbsolute(g1.q, g1.pa)]
        ELSE g1

\* A plausible slip in the CANCEL branch: only the pending HOME is dropped.
OnCancelKeepsAbs(g) ==
    IF g.ph \/ g.pa # <<>>
    THEN [g EXCEPT !.ph = FALSE]
    ELSE g

\* ("CANCEL",): both pending requests are dropped.
OnCancel(g) ==
    IF g.ph \/ g.pa # <<>>
    THEN [g EXCEPT !.ph = FALSE, !.pa = <<>>]
    ELSE g

\* A plausible slip in the CONFREQ branch: switching the requirement off
\* also drops what is pending.
OnConfReqDropsPending(g, act) ==
    IF act.arg = "True"
    THEN [g EXCEPT !.rc = TRUE]
    ELSE [g EXCEPT !.rc = FALSE, !.ph = FALSE, !.pa = <<>>]

\* ("CONFREQ", val).
OnConfReq(g, act) ==
    [g EXCEPT !.rc = (act.arg = "True")]

\* A plausible slip in the HOME branch: the flag is set before the test of
\* _require_confirm.
OnHomeFlagsAlways(g) ==
    IF g.rc
    THEN [g EXCEPT !.ph = TRUE]
    ELSE [g EXCEPT !.ph = TRUE, !.q = EnqueueHome(g.q)]

\* A plausible slip in the HOME branch: an ungated HOME also clears the flag.
OnHomeClearsFlag(g) ==
    IF g.rc
    THEN [g EXCEPT !.ph = TRUE]
    ELSE [g EXCEPT !.ph = FALSE, !.q = EnqueueHome(g.q)]

\* ("HOME",): pending if confirmation is required, else sent at once.
OnHome(g) ==
    IF g.rc
    THEN [g EXCEPT !.ph = TRUE]
    ELSE [g EXCEPT !.q = EnqueueHome(g.q)]

\* A plausible slip in the REL branch: relative moves are gated like the
\* absolute ones.
OnRelGated(g, act) ==
    IF g.rc
    THEN [g EXCEPT !.pa = Append(g.pa, <<act.j, act.v>>)]
    ELSE [g EXCEPT !.rel = Append(g.rel, <<act.j, act.v>>)]

\* ("REL", j, d): collected in rel_pairs.
OnRel(g, act) ==
    [g EXCEPT !.rel = Append(g.rel, <<act.j, act.v>>)]

\* A plausible slip in the ABS branch: an ungated pair is also kept pending.
OnAbsAlsoPending(g, act) ==
    IF g.rc
    THEN [g EXCEPT !.pa = Append(g.pa, <<act.j, act.v>>)]
    ELSE [g EXCEPT !.pa = Append(g.pa, <<act.j, act.v>>),
                   !.inst = Append(g.inst, <<act.j, act.v>>)]

\* ("ABS", j, angle): pending if confirmation is required, else collected in
\* abs_pairs_instant.
OnAbs(g, act) ==
    IF g.rc
    THEN [g EXCEPT !.pa = Append(g.pa, <<act.j, act.v>>)]
    ELSE [g EXCEPT !.inst = Append(g.inst, <<act.j, act.v>>)]

\* One turn of "for act in actions".
GateStep(g, act) ==
    IF act.t = "MODE" THEN OnMode(g, act)
    ELSE IF act.t = "CONFIRM" THEN OnConfirm(g)
    ELSE IF act.t = "CANCEL" THEN OnCancel(g)
    ELSE IF act.t = "CONFREQ" THEN OnConfReq(g, act)
    ELSE IF act.t = "HOME" THEN OnHome(g)
    ELSE IF act.t = "REL" THEN OnRel(g, act)
    ELSE IF act.t = "ABS" THEN OnAbs(g, act)
    ELSE g

\* The loop over the tokens, keeping the gate before and after each token.
RECURSIVE GateRun(_, _)
GateRun(g, acts) ==
    IF acts = <<>> THEN <<>>
    ELSE LET g2 == GateStep(g, Head(acts))
         IN  << [tok |-> Head(acts), pre |-> g, post |-> g2] >>
                \o GateRun(g2, Tail(acts))

\* After the loop: rel_pairs as one relative batch, then abs_pairs_instant
\* as one absolute batch.
FlushBatches(g) ==
    [g EXCEPT !.q = PutAbsolute(PutActions(g.q, g.rel), g.inst)]

\* __init__: confirmation required, nothing pending, relative mode.
InitGate ==
    /\ require_confirm = TRUE
    /\ pending_home = FALSE
    /\ pending_abs = <<>>
    /\ mode = "relative"
    /\ glog = <<>>
    /\ nutter = 0

\* The operator clicks one of the two mode radio buttons.
ClickMode(m) ==
    /\ mode' = m
    /\ UNCHANGED <<require_confirm, pending_home, pending_abs, glog, nutter>>
    /\ UNCHANGED ctlVars

\* _handle_actions(actions): the loop over the tokens and the two trailing
\* enqueues (an empty list only logs "Sin ordenes").
HandleList(acts) ==
    /\ glog' = GateRun([rc |-> require_confirm, ph |-> pending_home,
                         pa |-> pending_abs, mode |-> mode, q |-> q,
                         rel |-> <<>>, inst |-> <<>>],
                        acts)
    /\ IF glog' = <<>>
       THEN UNCHANGED <<require_confirm, pending_home, pending_abs, mode, q>>
       ELSE /\ require_confirm' = glog'[Len(glog')].post.rc
            /\ pending_home' = glog'[Len(glog')].post.ph
            /\ pending_abs' = glog'[Len(glog')].post.pa
            /\ mode' = glog'[Len(glog')].post.mode
            /\ q' = FlushBatches(glog'[Len(glog')].post).q
    /\ nput' = nput + Len(q') - Len(q)
    /\ UNCHANGED ctlVarsNoQ

\* A final transcript whose tokens are handled before anything else happens:
\* the recognizer reads the mode, parses, and _handle_actions runs.
HandleActions(u) ==
    /\ nutter < MaxUtter
    /\ nutter' = nutter + 1
    /\ HandleList(ParseCommands(u, mode))

----------------------------------------------------------------------------
(* speech_parser.py: StreamingRecognizer._loop, and the delivery of its
   sig_action emissions to the window's thread *)

\* The MODE a transcript yields ("none" if it has no mode phrase).
Yield(u) ==
    IF u.modeWord = "absoluto" THEN "absolute"
    ELSE IF u.modeWord = "relativo" THEN "relative"
    ELSE "none"

\* Transcripts of the runs with interim results: at most a mode phrase or
\* HOME, and motion commands.
RecUtterances ==
    { u \in Utterances :
        /\ ~u.confirm /\ ~u.cancel /\ ~u.confOn /\ ~u.confOff
        /\ ~(u.home /\ u.modeWord # "none") }

\* No final transcript yet, nothing emitted.
InitRec ==
    /\ evq = <<>>
    /\ sp = [n |-> 0, with |-> "relative", yield |-> "none",
             prevYield |-> "none", acts |-> <<>>,
             kind |-> "none", calls |-> <<>>]

\* The recognizer thread on a final transcript: on_final(txt),
\* mode = mode_provider(), acts = parse_commands(txt, mode), on_action(acts).
\* on_action is the emit of a Qt signal from another thread: the list is
\* queued for the window. sp.calls is what the loop called, in order.
SpeechFinal(u) ==
    /\ nutter < MaxUtter
    /\ nutter' = nutter + 1
    /\ evq' = Append(evq, ParseCommands(u, mode))
    /\ sp' = [n |-> sp.n + 1, with |-> mode, yield |-> Yield(u),
              prevYield |-> sp.yield, acts |-> ParseCommands(u, mode),
              kind |-> "final",
              calls |-> <<"on_final", "mode_provider", "parse_commands",
                          "on_action">>]
    /\ UNCHANGED <<require_confirm, pending_home, pending_abs, mode, glog>>
    /\ UNCHANGED ctlVars

\* A plausible slip in the loop: an interim transcript is parsed and its
\* actions emitted as well.
SpeechInterimParsed ==
    /\ \E u \in Utterances : evq' = Append(evq, ParseCommands(u, mode))
    /\ sp' = [sp EXCEPT !.kind = "interim",
                        !.calls = <<"on_live", "parse_commands", "on_action">>]
    /\ UNCHANGED <<require_confirm, pending_home, pending_abs, mode, glog,
                   nutter>>
    /\ UNCHANGED ctlVars

\* The recognizer thread on a result that is not final, whatever its text:
\* on_live(txt) and nothing else.
SpeechInterim ==
    /\ evq' = evq
    /\ sp' = [sp EXCEPT !.kind = "interim", !.calls = <<"on_live">>]
    /\ UNCHANGED <<require_confirm, pending_home, pending_abs, mode, glog,
                   nutter>>
    /\ UNCHANGED ctlVars

\* The recognizer thread on a response without results: "continue".
SpeechEmpty ==
    /\ evq' = evq
    /\ sp' = [sp EXCEPT !.kind = "empty", !.calls = <<>>]
    /\ UNCHANGED <<require_confirm, pending_home, pending_abs, mode, glog,
                   nutter>>
    /\ UNCHANGED ctlVars

\* The window's thread delivers the oldest queued emission to
\* _handle_actions.
GuiHandle ==
    /\ evq # <<>>
    /\ evq' = Tail(evq)
    /\ HandleList(Head(evq))
    /\ UNCHANGED <<nutter, sp>>

----------------------------------------------------------------------------
(* History of the command queue *)

\* Batches of the runs that keep the history: they take joint 3 to 140 and
\* then ask twice for +10 on it.
QRelBatches ==
    { << <<3, 1000>>, <<3, 1000>> >>,
      << <<2, -2000>> >> }

QAbsBatches ==
    { << <<3, 14000>>, <<1, 9000>> >> }

InitHist ==
    /\ enqlog = <<>>
    /\ outlog = <<>>
    /\ proclog = <<>>
    /\ stale = 0
    /\ stopMid = FALSE
    /\ batchRd = "unread"
    /\ homeWarn = FALSE

\* A put is remembered with whether the worker was executing a batch then.
LogPut(msg, ps) ==
    /\ enqlog' = IF ps = <<>> THEN enqlog
                 ELSE Append(enqlog, [msg |-> msg, pairs |-> ps,
                             busy |-> pc \in { "rel_read", "abs_read",
                                               "rel", "abs" }])
    /\ UNCHANGED <<outlog, proclog, stale, stopMid, batchRd, homeWarn>>

\* A batch leaves the queue: taken by the worker (the batch it now holds) or
\* discarded by stop().
LogTake(by) ==
    /\ IF q' # q
       THEN /\ outlog' =
                 Append(outlog,
                        [by |-> by,
                         batch |-> IF by = "worker"
                                   THEN [msg |-> IF pc' = "rel_read"
                                                 THEN "apply_actions"
                                                 ELSE "apply_absolute",
                                         pairs |-> pairs']
                                   ELSE [msg |-> Head(q).msg,
                                         pairs |-> Head(q).pairs],
                         stale |-> stale > 0])
            /\ stale' = IF stale > 0 THEN stale - 1 ELSE 0
            /\ stopMid' = IF by = "worker" THEN FALSE ELSE stopMid
       ELSE UNCHANGED <<outlog, stale, stopMid>>
    /\ UNCHANGED <<enqlog, proclog, batchRd, homeWarn>>

\* stop() is called: the batches queued now are the ones it is to discard.
LogStop ==
    /\ stale' = Len(q)
    /\ stopMid' = (pc \in { "rel", "abs" })
    /\ UNCHANGED <<enqlog, outlog, proclog, batchRd, homeWarn>>

\* The worker goes through one pair of the batch it holds.
LogPair ==
    /\ proclog' = Append(proclog, Head(pairs))
    /\ UNCHANGED <<enqlog, outlog, stale, stopMid, batchRd, homeWarn>>

\* The read at the start of a batch: what it gave is remembered.
LogBatchRead(rd) ==
    /\ batchRd' = rd
    /\ UNCHANGED <<enqlog, outlog, proclog, stale, stopMid, homeWarn>>

\* The homing step: "[WARN] HOME fuera de USER_LIMITS" is logged in the
\* branch that sends nothing.
LogHoming ==
    /\ homeWarn' = ~HomeOk
    /\ UNCHANGED <<enqlog, outlog, proclog, stale, stopMid, batchRd>>

----------------------------------------------------------------------------
(* robot_controller.py: start() and stop() called again and again *)

\* How many worker threads a run may create.
MaxStarts == 2

Workers == 1..MaxStarts

\* Where a worker thread is in _loop: not created yet, connecting, in the
\* start-up sequence (initial read, LEDs, HOME), at the test of the while
\* loop, at the get, executing a batch, or returned.
WorkerStates ==
    { "unborn", "connect", "boot", "listen", "get", "batch", "exited" }

\* The steps that take longer than the two seconds join() waits: the LED
\* sequence sleeps nine times one second, a batch waits for each move.
LongSteps == { "boot", "batch" }

InitLife ==
    /\ thr = 0
    /\ wpc = [w \in Workers |-> "unborn"]

Unborn == { w \in Workers : wpc[w] = "unborn" }

Alive == { w \in Workers : wpc[w] \notin { "unborn", "exited" } }

\* The part of the controller this view leaves alone.
RestartFrame ==
    UNCHANGED <<last_angles, home, pc, pairs, base, status, sigError, pub, arm,
                driverCmd, ncmd, homeSent, lastStep, prevStep, nput, nfault>>

\* start(), called when no stop() is in progress: returns at once if
\* _running is set; else sets it, creates the thread and starts it.
StartCall ==
    /\ stopPc = "idle"
    /\ IF running
       THEN UNCHANGED <<running, thr, wpc>>
       ELSE /\ Unborn # {}
            /\ running' = TRUE
            /\ \E w \in Unborn :
                  /\ \A v \in Unborn : w <= v
                  /\ thr' = w
                  /\ wpc' = [wpc EXCEPT ![w] = "connect"]
    /\ UNCHANGED <<q, stopPc>>
    /\ RestartFrame

\* stop(), first part: returns at once if _running is clear, else clears it.
StopCall ==
    /\ stopPc = "idle"
    /\ running
    /\ running' = FALSE
    /\ stopPc' = "drain"
    /\ UNCHANGED <<q, thr, wpc>>
    /\ RestartFrame

\* stop(), the drain loop: one get_nowait() per step until queue.Empty.
StopDrainStep ==
    /\ stopPc = "drain"
    /\ IF q # <<>>
       THEN q' = Tail(q) /\ stopPc' = stopPc
       ELSE q' = q /\ stopPc' = "join"
    /\ UNCHANGED <<running, thr, wpc>>
    /\ RestartFrame

\* A plausible repair of the end of stop(): join() without a timeout, which
\* returns only when the worker has returned.
StopJoinReturnWaits ==
    /\ stopPc = "join"
    /\ thr # 0 => wpc[thr] = "exited"
    /\ thr' = 0
    /\ stopPc' = "idle"
    /\ UNCHANGED <<running, q, wpc>>
    /\ RestartFrame

\* stop(), "if self._thr: self._thr.join(timeout=2); self._thr = None":
\* join returns when the worker has returned, or after two seconds while
\* the worker is in a long step.
StopJoinReturn ==
    /\ stopPc = "join"
    /\ thr # 0 => wpc[thr] \in { "exited" } \cup LongSteps
    /\ thr' = 0
    /\ stopPc' = "idle"
    /\ UNCHANGED <<running, q, wpc>>
    /\ RestartFrame

\* _loop of worker w, the connection: on failure it clears _running and
\* returns.
WorkerConnect(w) ==
    /\ wpc[w] = "connect"
    /\ \E ok \in BOOLEAN :
          IF ok
          THEN wpc' = [wpc EXCEPT ![w] = "boot"] /\ running' = running
          ELSE wpc' = [wpc EXCEPT ![w] = "exited"] /\ running' = FALSE
    /\ UNCHANGED <<q, stopPc, thr>>
    /\ RestartFrame

\* _loop of worker w, from the initial read to the end of HOME.
WorkerBoot(w) ==
    /\ wpc[w] = "boot"
    /\ wpc' = [wpc EXCEPT ![w] = "listen"]
    /\ UNCHANGED <<running, q, stopPc, thr>>
    /\ RestartFrame

\* _loop of worker w, "while self._running".
WorkerLoopTest(w) ==
    /\ wpc[w] = "listen"
    /\ wpc' = [wpc EXCEPT ![w] = IF running THEN "get" ELSE "exited"]
    /\ UNCHANGED <<running, q, stopPc, thr>>
    /\ RestartFrame

\* _loop of worker w, self._q.get(timeout=0.1).
WorkerGet(w) ==
    /\ wpc[w] = "get"
    /\ IF q = <<>>
       THEN wpc' = [wpc EXCEPT ![w] = "listen"] /\ q' = q
       ELSE wpc' = [wpc EXCEPT ![w] = "batch"] /\ q' = Tail(q)
    /\ UNCHANGED <<running, stopPc, thr>>
    /\ RestartFrame

\* _loop of worker w, the batch method returns.
WorkerBatch(w) ==
    /\ wpc[w] = "batch"
    /\ wpc' = [wpc EXCEPT ![w] = "listen"]
    /\ UNCHANGED <<running, q, stopPc, thr>>
    /\ RestartFrame

----------------------------------------------------------------------------
(* Calls of the pure helpers *)

NoCall == <<>>

\* No call of _read_angles or of the parser is under study.
InitCallsIdle ==
    /\ rin = NoCall
    /\ rout = NoCall
    /\ pin = NoCall
    /\ pout = NoCall

InitParseCall ==
    /\ pin \in SaidCommands
    /\ pout = NoCall
    /\ rin = NoCall
    /\ rout = NoCall

\* One call of parse_commands(txt, mode = "relative") on the command.
CallParseRelative ==
    /\ pout = NoCall
    /\ pout' = [acts |-> ParseRelative(pin)]
    /\ UNCHANGED <<pin, rin, rout>>

\* The transcripts studied: up to MaxPhrases phrases, one after the other,
\* either motion commands or mostly global intents.
MaxPhrases == 2

MotionPhrases ==
    { "mueve la junta 3 a 15 grados",
      "baja la junta 2 20 grados",
      "junta 4 a posicion 30",
      "junta 7 10",
      "junta septima 5",
      "j 3 10",
      "baja menos 20 grados en la junta segunda" }

IntentPhrases ==
    { "modo relativo",
      "ir a home",
      "Confirmar",
      "cancelar",
      "activar confirmacion",
      "desactivar confirmacion",
      "junta 4 a posicion 30" }

InitTextCall ==
    /\ pin \in { [text |-> "", mode |-> m, n |-> 0] : m \in Modes }
    /\ pout = NoCall
    /\ rin = NoCall
    /\ rout = NoCall

\* One more phrase is heard before the transcript is final.
Say(p) ==
    /\ pout = NoCall
    /\ pin.n < MaxPhrases
    /\ pin' = [pin EXCEPT !.n = @ + 1,
                          !.text = IF @ = "" THEN p ELSE @ \o " " \o p]
    /\ UNCHANGED <<pout, rin, rout>>

\* One call of parse_commands(text, mode), kept with the matches it went
\* through.
CallParseCommands ==
    /\ pout = NoCall
    /\ pout' = ParseTrace(pin.text, pin.mode)
    /\ UNCHANGED <<pin, rin, rout>>

\* What the driver is made to answer on one try of the call under study: two
\* poses, a list of five, a list of six that does not convert, no list.
ReplySamples ==
    { Reply(HOME_ANGLES),
      Reply([HOME_ANGLES EXCEPT ![3] = 14000]),
      Reply(<<0, 0, 0, 0, 0>>),
      [seq |-> TRUE, vals |-> HOME_ANGLES, conv |-> FALSE],
      NoReply }

InitReadCall ==
    /\ rin \in [1..READ_TRIES -> ReplySamples]
    /\ rout = NoCall
    /\ pin = NoCall
    /\ pout = NoCall

\* One call of _read_angles against the scripted driver.
CallReadAngles ==
    /\ rout = NoCall
    /\ rout' = ReadLoop(rin, 1)
    /\ UNCHANGED <<rin, pin, pout>>

----------------------------------------------------------------------------
(* Specifications *)

\* The controller thread with producers that enqueue batches directly.
NextCtl ==
    \/ Start /\ UNCHANGED <<fnVars, gateVars, recVars, histVars>>
    \/ StopRequest /\ UNCHANGED <<fnVars, gateVars, recVars, histVars>>
    \/ StopDrain /\ UNCHANGED <<fnVars, gateVars, recVars, histVars>>
    \/ StopJoin /\ UNCHANGED <<fnVars, gateVars, recVars, histVars>>
    \/ (\E ps \in RelBatches : EnqueueActions(ps))
          /\ UNCHANGED <<fnVars, gateVars, recVars, histVars>>
    \/ (\E ps \in AbsBatches \cup { HomePairs } : EnqueueAbsolute(ps))
          /\ UNCHANGED <<fnVars, gateVars, recVars, histVars>>
    \/ Connect /\ UNCHANGED <<fnVars, gateVars, recVars, histVars>>
    \/ ReadInitial /\ UNCHANGED <<fnVars, gateVars, recVars, histVars>>
    \/ LedSequence /\ UNCHANGED <<fnVars, gateVars, recVars, histVars>>
    \/ Homing /\ UNCHANGED <<fnVars, gateVars, recVars, histVars>>
    \/ LoopTest /\ UNCHANGED <<fnVars, gateVars, recVars, histVars>>
    \/ Dequeue /\ UNCHANGED <<fnVars, gateVars, recVars, histVars>>
    \/ BatchRead /\ UNCHANGED <<fnVars, gateVars, recVars, histVars>>
    \/ ApplyActionsPair /\ UNCHANGED <<fnVars, gateVars, recVars, histVars>>
    \/ ApplyAbsolutePair /\ UNCHANGED <<fnVars, gateVars, recVars, histVars>>

InitCtlSpec ==
    /\ InitValIdle /\ InitCtl /\ InitGate /\ InitRec /\ InitHist
    /\ InitCallsIdle /\ InitLife

SpecCtl == InitCtlSpec /\ [][NextCtl]_vars

\* The gate fed by final transcripts; the queue is not consumed.
NextGate ==
    \/ (\E m \in Modes : ClickMode(m))
          /\ UNCHANGED <<fnVars, recVars, histVars>>
    \/ (\E u \in Utterances : HandleActions(u))
          /\ UNCHANGED <<fnVars, recVars, histVars>>

InitGateSpec ==
    /\ InitValIdle /\ InitCtlIdle /\ InitGate /\ InitRec /\ InitHist
    /\ InitCallsIdle /\ InitLife

SpecGate == InitGateSpec /\ [][NextGate]_vars

\* The recognizer thread and the window's thread, with nobody clicking the
\* mode buttons.
NextMode ==
    \/ (\E u \in Utterances : SpeechFinal(u))
          /\ UNCHANGED <<fnVars, histVars>>
    \/ GuiHandle /\ UNCHANGED <<fnVars, histVars>>

SpecMode == InitGateSpec /\ [][NextMode]_vars

\* The recognizer thread receiving final, interim and empty responses, and
\* the window's thread.
NextRec ==
    \/ (\E u \in RecUtterances : SpeechFinal(u))
          /\ UNCHANGED <<fnVars, histVars>>
    \/ SpeechInterim /\ UNCHANGED <<fnVars, histVars>>
    \/ SpeechEmpty /\ UNCHANGED <<fnVars, histVars>>
    \/ GuiHandle /\ UNCHANGED <<fnVars, histVars>>

SpecRec == InitGateSpec /\ [][NextRec]_vars

\* The controller thread with the history of its queue kept.
NextQueue ==
    \/ Start /\ UNCHANGED <<fnVars, gateVars, recVars, histVars>>
    \/ StopRequest /\ LogStop /\ UNCHANGED <<fnVars, gateVars, recVars>>
    \/ StopDrain /\ LogTake("drain") /\ UNCHANGED <<fnVars, gateVars, recVars>>
    \/ StopJoin /\ UNCHANGED <<fnVars, gateVars, recVars, histVars>>
    \/ (\E ps \in QRelBatches : EnqueueActions(ps) /\ LogPut("apply_actions", ps))
          /\ UNCHANGED <<fnVars, gateVars, recVars>>
    \/ (\E ps \in QAbsBatches :
            EnqueueAbsolute(ps) /\ LogPut("apply_absolute", ps))
          /\ UNCHANGED <<fnVars, gateVars, recVars>>
    \/ Connect /\ UNCHANGED <<fnVars, gateVars, recVars, histVars>>
    \/ ReadInitial /\ UNCHANGED <<fnVars, gateVars, recVars, histVars>>
    \/ LedSequence /\ UNCHANGED <<fnVars, gateVars, recVars, histVars>>
    \/ Homing /\ LogHoming /\ UNCHANGED <<fnVars, gateVars, recVars>>
    \/ LoopTest /\ UNCHANGED <<fnVars, gateVars, recVars, histVars>>
    \/ Dequeue /\ LogTake("worker") /\ UNCHANGED <<fnVars, gateVars, recVars>>
    \/ (\E rd \in ReadOutcomes : BatchReadWith(rd) /\ LogBatchRead(rd))
          /\ UNCHANGED <<fnVars, gateVars, recVars>>
    \/ ApplyActionsPair /\ LogPair /\ UNCHANGED <<fnVars, gateVars, recVars>>
    \/ ApplyAbsolutePair /\ LogPair /\ UNCHANGED <<fnVars, gateVars, recVars>>

SpecQueue == InitGateSpec /\ [][NextQueue]_vars

\* The start-up sequence of the worker, for several home poses.
NextBoot ==
    \/ Start /\ UNCHANGED <<fnVars, gateVars, recVars, histVars>>
    \/ Connect /\ UNCHANGED <<fnVars, gateVars, recVars, histVars>>
    \/ ReadInitial /\ UNCHANGED <<fnVars, gateVars, recVars, histVars>>
    \/ LedSequence /\ UNCHANGED <<fnVars, gateVars, recVars, histVars>>
    \/ Homing /\ LogHoming /\ UNCHANGED <<fnVars, gateVars, recVars>>
    \/ LoopTest /\ UNCHANGED <<fnVars, gateVars, recVars, histVars>>

InitBoot ==
    /\ InitValIdle /\ InitCtlBoot /\ InitGate /\ InitRec /\ InitHist
    /\ InitCallsIdle /\ InitLife

SpecBoot == InitBoot /\ [][NextBoot]_vars

\* _read_angles alone.
NextRead ==
    /\ CallReadAngles
    /\ UNCHANGED <<valVars, otherVars>>

InitRead ==
    /\ InitValIdle /\ InitCtlIdle /\ InitGate /\ InitRec /\ InitHist
    /\ InitReadCall /\ InitLife

SpecRead == InitRead /\ [][NextRead]_vars

\* The relative grammar alone.
NextParse ==
    /\ CallParseRelative
    /\ UNCHANGED <<valVars, otherVars>>

InitParse ==
    /\ InitValIdle /\ InitCtlIdle /\ InitGate /\ InitRec /\ InitHist
    /\ InitParseCall /\ InitLife

SpecParse == InitParse /\ [][NextParse]_vars

\* parse_commands alone, on the text of a transcript of motion commands.
NextText ==
    \/ (\E p \in MotionPhrases : Say(p))
          /\ UNCHANGED <<valVars, otherVars>>
    \/ CallParseCommands
          /\ UNCHANGED <<valVars, otherVars>>

InitText ==
    /\ InitValIdle /\ InitCtlIdle /\ InitGate /\ InitRec /\ InitHist
    /\ InitTextCall /\ InitLife

SpecText == InitText /\ [][NextText]_vars

\* The controller started and stopped again and again, its workers seen
\* from outside.
NextRestart ==
    \/ StartCall /\ UNCHANGED <<valVars, callVars, gateVars, recVars, histVars>>
    \/ StopCall /\ UNCHANGED <<valVars, callVars, gateVars, recVars, histVars>>
    \/ StopDrainStep
          /\ UNCHANGED <<valVars, callVars, gateVars, recVars, histVars>>
    \/ StopJoinReturn
          /\ UNCHANGED <<valVars, callVars, gateVars, recVars, histVars>>
    \/ (\E ps \in QRelBatches : EnqueueActions(ps))
          /\ UNCHANGED <<fnVars, gateVars, recVars, histVars>>
    \/ (\E w \in Workers : WorkerConnect(w))
          /\ UNCHANGED <<valVars, callVars, gateVars, recVars, histVars>>
    \/ (\E w \in Workers : WorkerBoot(w))
          /\ UNCHANGED <<valVars, callVars, gateVars, recVars, histVars>>
    \/ (\E w \in Workers : WorkerLoopTest(w))
          /\ UNCHANGED <<valVars, callVars, gateVars, recVars, histVars>>
    \/ (\E w \in Workers : WorkerGet(w))
          /\ UNCHANGED <<valVars, callVars, gateVars, recVars, histVars>>
    \/ (\E w \in Workers : WorkerBatch(w))
          /\ UNCHANGED <<valVars, callVars, gateVars, recVars, histVars>>

SpecRestart == InitGateSpec /\ [][NextRestart]_vars

\* The worker thread of a controller nobody stops: every step of _loop.
LiveWorker ==
    \/ Connect /\ UNCHANGED <<fnVars, gateVars, recVars, histVars>>
    \/ ReadInitial /\ UNCHANGED <<fnVars, gateVars, recVars, histVars>>
    \/ LedSequence /\ UNCHANGED <<fnVars, gateVars, recVars, histVars>>
    \/ Homing /\ LogHoming /\ UNCHANGED <<fnVars, gateVars, recVars>>
    \/ LoopTest /\ UNCHANGED <<fnVars, gateVars, recVars, histVars>>
    \/ Dequeue /\ LogTake("worker") /\ UNCHANGED <<fnVars, gateVars, recVars>>
    \/ (\E rd \in ReadOutcomes : BatchReadWith(rd) /\ LogBatchRead(rd))
          /\ UNCHANGED <<fnVars, gateVars, recVars>>
    \/ ApplyActionsPair /\ LogPair /\ UNCHANGED <<fnVars, gateVars, recVars>>
    \/ ApplyAbsolutePair /\ LogPair /\ UNCHANGED <<fnVars, gateVars, recVars>>

\* The callers of a controller nobody stops: start() and the two enqueue
\* methods, at any moment.
LiveCallers ==
    \/ Start /\ UNCHANGED <<fnVars, gateVars, recVars, histVars>>
    \/ (\E ps \in QRelBatches : EnqueueActions(ps) /\ LogPut("apply_actions", ps))
          /\ UNCHANGED <<fnVars, gateVars, recVars>>
    \/ (\E ps \in QAbsBatches :
            EnqueueAbsolute(ps) /\ LogPut("apply_absolute", ps))
          /\ UNCHANGED <<fnVars, gateVars, recVars>>

NextLive == LiveCallers \/ LiveWorker

\* The worker is a thread of its own (threading.Thread, started by start()):
\* the scheduler lets it take its next step whenever it has one, and every
\* sleep and every get(timeout=0.1) of _loop ends. Nothing is assumed of the
\* callers.
SpecLive == InitGateSpec /\ [][NextLive]_vars /\ WF_vars(LiveWorker)


\* parse_commands alone, on the text of a transcript of global intents.
NextIntents ==
    \/ (\E p \in IntentPhrases : Say(p))
          /\ UNCHANGED <<valVars, otherVars>>
    \/ CallParseCommands
          /\ UNCHANGED <<valVars, otherVars>>

SpecIntents == InitText /\ [][NextIntents]_vars

\* The limit policy alone.
NextVal ==
    /\ CallValidateRelative
    /\ UNCHANGED <<callVars, otherVars>>

InitVal ==
    /\ InitValCalls /\ InitCtlIdle /\ InitGate /\ InitRec /\ InitHist
    /\ InitCallsIdle /\ InitLife

SpecVal == InitVal /\ [][NextVal]_vars

----------------------------------------------------------------------------
(* Properties of the limit policy (checked under SpecVal) *)

\* The limits and the window as the properties read them.
InLimits(j, a) == USER_LIMITS[j][1] <= a /\ a <= USER_LIMITS[j][2]

InWindow(j, a) ==
    USER_LIMITS[j][1] - 500 <= a /\ a <= USER_LIMITS[j][2] + 500

vCur == vcall.base[vcall.joint]

vTgt == vcall.base[vcall.joint] + vcall.delta

vLim == USER_LIMITS[vcall.joint]

vTgtIn == InLimits(vcall.joint, vTgt)

vCurIn == InLimits(vcall.joint, vCur)

vCurInWindow == InWindow(vcall.joint, vCur)

vReturned == vret # NoResult

\* C3: whenever base[joint] + delta lies outside USER_LIMITS[joint], the call
\* rejects (ok = false, no target pose), whatever the current reading is.
C3_HardFailOnTarget ==
    (vReturned /\ ~vTgtIn)
        => (vret.ok = FALSE /\ vret.target = None)

\* The reading is inside the tolerance window but outside the limits, the
\* destination is outside the limits, and the call has rejected.
C3_Witness ==
    /\ vReturned
    /\ vcall.joint = 3 /\ vCur = 15200 /\ vcall.delta = 500
    /\ vret.ok = FALSE /\ vret.msg = "exceeds"

\* C4: destination inside the limits, reading outside the limits but inside
\* the command window: accepted, with the leniency notice and not the plain
\* OK reason, and the returned pose is the base with the joint at the target.
C4_WindowLeniency ==
    (vReturned /\ vTgtIn /\ ~vCurIn /\ vCurInWindow)
        => /\ vret.ok = TRUE
           /\ vret.msg = "window"
           /\ vret.target = [vcall.base EXCEPT ![vcall.joint] = vTgt]

\* Joint 3 with limits (0, 150): reading 152, delta -10, destination 142.
C4_Witness ==
    /\ vReturned
    /\ vcall.joint = 3 /\ vCur = 15200 /\ vcall.delta = -1000
    /\ vret.ok = TRUE /\ vret.msg = "window" /\ vret.target[3] = 14200

vToward ==
    \/ vCur < vLim[1] /\ vcall.delta > 0
    \/ vCur > vLim[2] /\ vcall.delta < 0

\* C5: with the reading outside the command window the call accepts only if
\* the delta moves the angle back toward the permitted range (and then exactly
\* when the destination is inside the limits), and rejects otherwise; joint 3
\* at 160 accepts delta -10 and rejects delta +5.
C5_OutsideWindowOnlyCorrections ==
    (vReturned /\ ~vCurInWindow)
        => /\ vret.ok = TRUE => vToward
           /\ ~vToward => (vret.ok = FALSE /\ vret.target = None)
           /\ vret.ok = (vToward /\ vTgtIn)
           /\ (vcall.joint = 3 /\ vCur = 16000 /\ vcall.delta = -1000)
                 => vret.ok = TRUE
           /\ (vcall.joint = 3 /\ vCur = 16000 /\ vcall.delta = 500)
                 => vret.ok = FALSE

\* Joint 3 read at 160, outside the window (-5, 155): delta -10 was accepted
\* as a correction toward the range.
C5_Witness ==
    /\ vReturned
    /\ vcall.joint = 3 /\ vCur = 16000 /\ vcall.delta = -1000
    /\ vret.ok = TRUE /\ vret.msg = "toward"

----------------------------------------------------------------------------
(* Properties of the controller (checked under SpecCtl) *)

\* C1: every send_angle(joint, target) the controller issues has its target
\* inside USER_LIMITS[joint] (inclusive), for every batch, base pose and
\* pattern of failed reads.
C1_CommandsInsideLimits ==
    driverCmd # NoCmd => InLimits(driverCmd[1], driverCmd[2])

\* A relative move was commanded from a reading outside the command window
\* (joint 3 read at 160, delta -10, commanded to the limit 150).
C1_Witness ==
    /\ ncmd >= 1
    /\ driverCmd = <<3, 15000>>
    /\ lastStep.kind = "rel" /\ lastStep.before = 16000

\* The worker takes the next pair of an absolute batch in this step.
AbsPairStep == pc = "abs" /\ pairs # <<>> /\ pairs' # pairs

\* C2: an absolute pair whose target is outside USER_LIMITS[joint] is
\* rejected whatever the pose is: no send_angle call, the arm, the base and
\* the last known pose are unchanged, and the loop goes on with the rest of
\* the batch.
C2_AbsoluteOutsideRejected ==
    [][ (AbsPairStep /\ Head(pairs)[1] \in Joints
            /\ ~InLimits(Head(pairs)[1], Head(pairs)[2]))
        => /\ ncmd' = ncmd
           /\ driverCmd' = driverCmd
           /\ arm' = arm
           /\ last_angles' = last_angles
           /\ base' = base
           /\ pub' = pub
           /\ lastStep'.res = "rejected"
           /\ pairs' = Tail(pairs)
           /\ pc' = IF Tail(pairs) = <<>> THEN "listen" ELSE "abs" ]_vars

\* Joint 3 read at 152 (inside the window): the absolute target 152 was
\* rejected without a move, and the next pair of the batch was then executed.
C2_Witness ==
    /\ prevStep.kind = "abs" /\ prevStep.res = "rejected"
    /\ prevStep.joint = 3 /\ prevStep.val = 15200 /\ prevStep.before = 15200
    /\ prevStep.arm = 15200
    /\ lastStep.kind = "abs" /\ lastStep.res = "moved"
    /\ lastStep.joint = 3 /\ lastStep.val = 0

\* No driver call of the step raised, and the arm settled at the target.
Settled(r) == r.res # "error" /\ (r.res = "moved" => r.arm = r.tgt)

----------------------------------------------------------------------------
(* Properties of the pending-confirmation gate (checked under SpecGate) *)

\* HOME as the controller receives it: one absolute batch of six pairs.
HomeBatch ==
    [msg |-> "apply_absolute",
     pairs |-> [i \in 1..6 |-> <<i, HOME_ANGLES[i]>>]]

AbsBatch(ps) == [msg |-> "apply_absolute", pairs |-> ps]

RelBatch(ps) == [msg |-> "apply_actions", pairs |-> ps]

IsAbsMsg(b) == b.msg = "apply_absolute"

\* The pairs of the tokens of kind t at positions lo..Len(glog) that met
\* require_confirm = rc, in token order.
RECURSIVE PairsOf(_, _, _)
PairsOf(t, rc, lo) ==
    IF lo > Len(glog) THEN <<>>
    ELSE (IF glog[lo].tok.t = t /\ glog[lo].pre.rc = rc
          THEN << <<glog[lo].tok.j, glog[lo].tok.v>> >> ELSE <<>>)
         \o PairsOf(t, rc, lo + 1)

HasToken(t, lo) == \E k \in lo..Len(glog) : glog[k].tok.t = t

\* What the end of the handler must add to the queue: the REL pairs as one
\* relative batch, then the ungated ABS pairs as one absolute batch.
ExpectedFlush ==
    LET rel == PairsOf("REL", TRUE, 1) \o PairsOf("REL", FALSE, 1)
        inst == PairsOf("ABS", FALSE, 1)
    IN  (IF rel # <<>> THEN << RelBatch(rel) >> ELSE <<>>)
        \o (IF inst # <<>> THEN << AbsBatch(inst) >> ELSE <<>>)

\* The token left everything but the named parts of the gate as it was.
KeepsSettings(e) == e.post.rc = e.pre.rc /\ e.post.mode = e.pre.mode

KeepsLocals(e) == e.post.rel = e.pre.rel /\ e.post.inst = e.pre.inst

\* C7: while require_confirm is true an ABS token puts nothing on the queue
\* (a handled list without Confirm adds no absolute batch); a CONFIRM token
\* enqueues the pending HOME batch first, then the pending absolute pairs as
\* exactly one batch in insertion order, and leaves nothing pending.
C7_ConfirmFlushesPending ==
    /\ \A i \in 1..Len(glog) :
        LET e == glog[i]
        IN  /\ (e.tok.t = "ABS" /\ e.pre.rc)
                 => /\ e.post.q = e.pre.q
                    /\ e.post.inst = e.pre.inst
            /\ e.tok.t = "CONFIRM"
                 => /\ e.post.q =
                         e.pre.q
                         \o (IF e.pre.ph THEN << HomeBatch >> ELSE <<>>)
                         \o (IF e.pre.pa # <<>>
                             THEN << AbsBatch(e.pre.pa) >> ELSE <<>>)
                    /\ e.post.ph = FALSE
                    /\ e.post.pa = <<>>
                    /\ KeepsSettings(e) /\ KeepsLocals(e)
    /\ (glog # <<>> /\ glog[1].pre.rc
          /\ ~HasToken("CONFIRM", 1) /\ ~HasToken("CONFREQ", 1))
         => SelectSeq(q, IsAbsMsg) = SelectSeq(glog[1].pre.q, IsAbsMsg)

\* HOME and the pairs (1, 90), (2, -30) were pending, in that order of
\* insertion; Confirm has put the HOME batch and then one batch with both
\* pairs on the empty queue, and nothing is pending.
C7_Witness ==
    /\ \E i \in 1..Len(glog) :
         /\ glog[i].tok.t = "CONFIRM"
         /\ glog[i].pre.rc /\ glog[i].pre.ph
         /\ glog[i].pre.pa = << <<1, 9000>>, <<2, -3000>> >>
         /\ glog[i].pre.q = <<>>
    /\ q = << HomeBatch, AbsBatch(<< <<1, 9000>>, <<2, -3000>> >>) >>
    /\ pending_home = FALSE /\ pending_abs = <<>>

\* C8: a CANCEL token clears both pending requests and enqueues nothing;
\* when the handler returns, the gate holds only requests made by tokens after
\* the Cancel and the queue got only what those tokens forward, so nothing
\* that was pending at the Cancel is left for a later Confirm.
C8_CancelDiscardsPending ==
    \A i \in 1..Len(glog) :
        LET e == glog[i]
        IN  e.tok.t = "CANCEL"
              => /\ e.post.ph = FALSE
                 /\ e.post.pa = <<>>
                 /\ e.post.q = e.pre.q
                 /\ KeepsSettings(e) /\ KeepsLocals(e)
                 /\ pending_abs = PairsOf("ABS", TRUE, i + 1)
                 /\ pending_home
                      => \E k \in (i + 1)..Len(glog) :
                            glog[k].tok.t = "HOME" /\ glog[k].pre.rc
                 /\ (~HasToken("HOME", i + 1) /\ ~HasToken("CONFIRM", i + 1))
                      => q = e.pre.q \o ExpectedFlush

\* Cancel met a pending HOME and pending pairs: both are gone and the queue is
\* still empty.
C8_Witness ==
    /\ \E i \in 1..Len(glog) :
         /\ glog[i].tok.t = "CANCEL"
         /\ glog[i].pre.ph
         /\ glog[i].pre.pa = << <<1, 9000>>, <<2, -3000>> >>
    /\ q = <<>>
    /\ pending_home = FALSE /\ pending_abs = <<>>

\* C9: a HOME token with require_confirm true sets pending_home and enqueues
\* nothing; with require_confirm false it enqueues the HOME batch at once and
\* leaves pending_home as it was.
C9_HomeGated ==
    \A i \in 1..Len(glog) :
        LET e == glog[i]
        IN  e.tok.t = "HOME"
              => /\ e.pre.rc
                      => /\ e.post.ph = TRUE
                         /\ e.post.q = e.pre.q
                 /\ ~e.pre.rc
                      => /\ e.post.q = Append(e.pre.q, HomeBatch)
                         /\ e.post.ph = e.pre.ph
                 /\ e.post.pa = e.pre.pa
                 /\ KeepsSettings(e) /\ KeepsLocals(e)

\* With confirmation switched off and an earlier HOME still pending, a HOME
\* token was forwarded at once and pending_home is still set.
C9_Witness ==
    /\ \E i \in 1..Len(glog) :
         /\ glog[i].tok.t = "HOME"
         /\ ~glog[i].pre.rc /\ glog[i].pre.ph
         /\ glog[i].pre.q = <<>>
    /\ q = << HomeBatch >>
    /\ pending_home = TRUE

\* C10: an ABS token with require_confirm true is appended to pending_abs
\* and nothing is enqueued; with require_confirm false it leaves pending_abs
\* as it was and is forwarded when the handler returns, all such pairs of the
\* list as one absolute batch in token order.
C10_AbsoluteGated ==
    /\ \A i \in 1..Len(glog) :
        LET e == glog[i]
        IN  e.tok.t = "ABS"
              => /\ e.pre.rc
                      => /\ e.post.pa = Append(e.pre.pa, <<e.tok.j, e.tok.v>>)
                         /\ e.post.inst = e.pre.inst
                 /\ ~e.pre.rc
                      => /\ e.post.inst =
                              Append(e.pre.inst, <<e.tok.j, e.tok.v>>)
                         /\ e.post.pa = e.pre.pa
                 /\ e.post.q = e.pre.q
                 /\ e.post.ph = e.pre.ph
                 /\ e.post.rel = e.pre.rel
                 /\ KeepsSettings(e)
    /\ glog # <<>>
         => /\ q = glog[Len(glog)].post.q \o ExpectedFlush
            /\ pending_abs = glog[Len(glog)].post.pa

\* With confirmation switched off and the pair (1, 90) still pending, the
\* tokens ABS (1, 90), ABS (2, -30) went out as one batch in that order and
\* the pending list is unchanged.
C10_Witness ==
    /\ \E i \in 1..Len(glog) :
         /\ glog[i].tok.t = "ABS"
         /\ ~glog[i].pre.rc
         /\ glog[i].pre.pa = << <<1, 9000>> >>
    /\ q = << AbsBatch(<< <<1, 9000>>, <<2, -3000>> >>) >>
    /\ pending_abs = << <<1, 9000>> >>
    /\ require_confirm = FALSE

IsRelMsg(b) == b.msg = "apply_actions"

\* C11: a REL token is collected whatever require_confirm, pending_home and
\* pending_abs are, and changes none of them; when the handler returns, all
\* REL pairs of the list are on the queue as exactly one relative batch, in
\* token order, behind what the list's other tokens enqueued.
C11_RelativeNeverGated ==
    /\ \A i \in 1..Len(glog) :
        LET e == glog[i]
        IN  e.tok.t = "REL"
              => /\ e.post.rel = Append(e.pre.rel, <<e.tok.j, e.tok.v>>)
                 /\ e.post.ph = e.pre.ph
                 /\ e.post.pa = e.pre.pa
                 /\ e.post.q = e.pre.q
                 /\ e.post.inst = e.pre.inst
                 /\ KeepsSettings(e)
    /\ HasToken("REL", 1)
         => /\ pending_home = glog[Len(glog)].post.ph
            /\ pending_abs = glog[Len(glog)].post.pa
            /\ SelectSeq(q, IsRelMsg) =
                 SelectSeq(glog[1].pre.q, IsRelMsg)
                 \o << RelBatch(PairsOf("REL", TRUE, 1)
                                \o PairsOf("REL", FALSE, 1)) >>
            /\ \E k \in 1..Len(q) :
                 /\ IsRelMsg(q[k])
                 /\ \A n \in (k + 1)..Len(q) : ~IsRelMsg(q[n])
                 /\ SubSeq(q, 1, k - 1) = glog[Len(glog)].post.q

\* With confirmation required, HOME pending and two absolute pairs pending,
\* the REL tokens (1, 90), (2, -30) went out as one batch and the pending
\* requests are still there.
C11_Witness ==
    /\ \E i \in 1..Len(glog) :
         /\ glog[i].tok.t = "REL"
         /\ glog[i].pre.rc /\ glog[i].pre.ph
         /\ glog[i].pre.pa = << <<1, 9000>>, <<2, -3000>> >>
    /\ q = << RelBatch(<< <<1, 9000>>, <<2, -3000>> >>) >>
    /\ require_confirm /\ pending_home
    /\ pending_abs = << <<1, 9000>>, <<2, -3000>> >>

\* C12: a CONFREQ token changes only require_confirm and a MODE token only
\* the active mode: pending_home, pending_abs and the batches on the queue
\* are as they were.
C12_SettingsTokensFrame ==
    \A i \in 1..Len(glog) :
        LET e == glog[i]
        IN  /\ e.tok.t = "CONFREQ"
                 => /\ e.post.rc = (e.tok.arg = "True")
                    /\ e.post.mode = e.pre.mode
                    /\ e.post.ph = e.pre.ph
                    /\ e.post.pa = e.pre.pa
                    /\ e.post.q = e.pre.q
                    /\ KeepsLocals(e)
            /\ e.tok.t = "MODE"
                 => /\ e.post.mode = e.tok.arg
                    /\ e.post.rc = e.pre.rc
                    /\ e.post.ph = e.pre.ph
                    /\ e.post.pa = e.pre.pa
                    /\ e.post.q = e.pre.q
                    /\ KeepsLocals(e)

\* One list held MODE absolute and CONFREQ off while HOME and a pair were
\* pending: the mode and the requirement changed, the pending requests and
\* the empty queue did not.
C12_Witness ==
    /\ \E i \in 1..Len(glog) :
         /\ glog[i].tok.t = "CONFREQ" /\ glog[i].tok.arg = "False"
         /\ glog[i].pre.rc /\ glog[i].pre.ph
         /\ glog[i].pre.pa = << <<1, 9000>> >>
    /\ \E i \in 1..Len(glog) :
         /\ glog[i].tok.t = "MODE" /\ glog[i].tok.arg = "relative"
         /\ glog[i].pre.mode = "absolute"
    /\ Len(glog) = 2
    /\ mode = "relative" /\ require_confirm = FALSE
    /\ pending_home /\ pending_abs = << <<1, 9000>> >>
    /\ q = <<>>

----------------------------------------------------------------------------
(* Properties of the recognizer and the window (checked under SpecMode) *)

\* C14 as stated: a final transcript that follows one yielding MODE m is
\* parsed with mode m, and the motion tokens of a transcript are those of
\* the mode that was active before its own MODE token.
C14_NextParsedWithYieldedMode ==
    /\ (sp.n >= 2 /\ sp.prevYield # "none") => sp.with = sp.prevYield
    /\ \A i \in 1..Len(sp.acts) :
         /\ sp.acts[i].t = "ABS" => sp.with = "absolute"
         /\ sp.acts[i].t = "REL" => sp.with = "relative"

----------------------------------------------------------------------------
(* Properties of the command queue (checked under SpecQueue) *)

\* The pairs of the batches the worker took among the first n that left the
\* queue, in the order it took them.
RECURSIVE WorkerPairs(_)
WorkerPairs(n) ==
    IF n = 0 THEN <<>>
    ELSE WorkerPairs(n - 1)
         \o (IF outlog[n].by = "worker" THEN outlog[n].batch.pairs ELSE <<>>)

\* C15: the batches leave the queue in the order they were put (what has
\* left, followed by what is queued, is what was put); the pairs the worker
\* has gone through, followed by the pairs it still holds, are the batches it
\* took, one after the other; and a put of a non-empty batch is possible
\* wherever the worker is.
C15_QueueIsFifo ==
    /\ [i \in 1..Len(outlog) |-> outlog[i].batch] \o q
         = [i \in 1..Len(enqlog) |->
              [msg |-> enqlog[i].msg, pairs |-> enqlog[i].pairs]]
    /\ proclog \o pairs = WorkerPairs(Len(outlog))
    /\ nput < MaxPut
         => /\ \A ps \in QRelBatches : ENABLED EnqueueActions(ps)
            /\ \A ps \in QAbsBatches : ENABLED EnqueueAbsolute(ps)

\* Two different batches were put, the second while the worker was executing
\* the first; the worker took both and went through the pairs of the first
\* and then those of the second.
C15_Witness ==
    /\ Len(enqlog) = 2
    /\ enqlog[2].busy
    /\ enqlog[1].pairs # enqlog[2].pairs
    /\ Len(outlog) = 2
    /\ outlog[1].by = "worker" /\ outlog[2].by = "worker"
    /\ proclog = enqlog[1].pairs \o enqlog[2].pairs
    /\ pairs = <<>> /\ q = <<>>

\* C16 as stated: no pair of a batch that was queued when stop() was called
\* is gone through by the worker afterwards.
C16_StopDiscardsQueued ==
    \A i \in 1..Len(outlog) :
        (outlog[i].by = "worker" /\ outlog[i].stale)
          => Len(proclog) <= Len(WorkerPairs(i - 1))

\* C17 as stated: once stop() has been called while a batch is being
\* executed, no further send_angle is issued for that batch.
C17_NoPairAfterStop ==
    [][ stopMid => ncmd' = ncmd ]_vars

----------------------------------------------------------------------------
(* Properties of the controller's batches (checked under SpecCtl) *)

\* C18 as stated: once connected, no driver error ends the worker thread.
C18_NoDriverErrorTerminates ==
    status = "CONNECTED" => pc # "crashed"

\* The worker takes the next pair of a relative batch in this step.
RelPairStep == pc = "rel" /\ pairs # <<>> /\ pairs' # pairs

\* C19: a pair of a relative batch that fails validation issues no move,
\* leaves the base pose (and the last known and published pose) as it was, and
\* the loop goes on with the rest of the batch.
C19_RejectedRelativeSkipped ==
    [][ (RelPairStep /\ Head(pairs)[1] \in Joints
            /\ ~ValidateRelative(base, Head(pairs)[1], Head(pairs)[2]).ok)
        => /\ ncmd' = ncmd
           /\ driverCmd' = driverCmd
           /\ arm' = arm
           /\ base' = base
           /\ last_angles' = last_angles
           /\ pub' = pub
           /\ lastStep'.res = "rejected"
           /\ pairs' = Tail(pairs)
           /\ pc' = IF Tail(pairs) = <<>> THEN "listen" ELSE "rel" ]_vars

\* From home, (3, +5) was rejected (153.35 is above the limit) without a
\* move, and the next pair of the batch, (2, -20), was then executed.
C19_Witness ==
    /\ prevStep.kind = "rel" /\ prevStep.res = "rejected"
    /\ prevStep.joint = 3 /\ prevStep.val = 500 /\ prevStep.before = 14835
    /\ lastStep.kind = "rel" /\ lastStep.res = "moved"
    /\ lastStep.joint = 2 /\ lastStep.val = -2000
    /\ arm[3] = 14835 /\ arm[2] = -11483
    /\ ncmd = 1

----------------------------------------------------------------------------
(* Properties of the base pose in a relative batch (checked under SpecQueue) *)

\* C20: a pair of a relative batch is validated against the current base and
\* commanded to base[joint] + delta; after an accepted move the base is the
\* pose read back, or the computed target pose if no read is available, and
\* that pose is stored as last known pose and published.
C20_BaseFollowsMoves ==
    [][ (RelPairStep /\ Head(pairs)[1] \in Joints
            /\ ValidateRelative(base, Head(pairs)[1], Head(pairs)[2]).ok)
        => /\ lastStep'.before = base[Head(pairs)[1]]
           /\ driverCmd' = <<Head(pairs)[1],
                             base[Head(pairs)[1]] + Head(pairs)[2]>>
           /\ lastStep'.res = "moved"
                => /\ base' =
                        IF lastStep'.read = "none"
                        THEN [base EXCEPT ![Head(pairs)[1]] =
                                base[Head(pairs)[1]] + Head(pairs)[2]]
                        ELSE arm'
                   /\ last_angles' = base'
                   /\ pub' = base' ]_vars

\* Joint 3 at 140 and the batch (3, +10), (3, +10): the first pair was
\* executed to 150, the second was validated against 150 and rejected.
C20_Witness ==
    /\ prevStep.kind = "rel" /\ prevStep.joint = 3 /\ prevStep.val = 1000
    /\ prevStep.before = 14000 /\ prevStep.res = "moved"
    /\ prevStep.after = 15000
    /\ lastStep.kind = "rel" /\ lastStep.joint = 3 /\ lastStep.val = 1000
    /\ lastStep.before = 15000 /\ lastStep.res = "rejected"
    /\ last_angles[3] = 15000 /\ pub[3] = 15000 /\ arm[3] = 15000

----------------------------------------------------------------------------
(* Properties of failed reads and failed moves (checked under SpecCtl and
   SpecQueue) *)

\* C21: in an absolute batch, when no reading is available after an accepted
\* move, the base stays the previous base, and the last known pose and the
\* published pose take the previous base values, not the commanded target.
C21_AbsoluteReadFallback ==
    [][ (AbsPairStep /\ lastStep'.res = "moved" /\ lastStep'.read = "none")
        => /\ base' = base
           /\ last_angles' = base
           /\ pub' = base
           /\ driverCmd' = <<Head(pairs)[1], Head(pairs)[2]>> ]_vars

\* Joint 3 was sent from 148.35 to 0 and no reading came back: the arm is at
\* 0 while the base, the last known pose and the published pose say 148.35.
C21_Witness ==
    /\ lastStep.kind = "abs" /\ lastStep.res = "moved"
    /\ lastStep.read = "none"
    /\ lastStep.joint = 3 /\ lastStep.tgt = 0 /\ lastStep.before = 14835
    /\ arm[3] = 0
    /\ last_angles[3] = 14835 /\ pub[3] = 14835

\* C22: a driver error raised while a pair is moved (by send_angle or by the
\* read that follows it) is emitted as a per-joint error of the batch's kind;
\* the base, the last known pose and the published pose are as before the
\* pair, and the loop goes on with the rest of the batch, in relative and in
\* absolute batches alike.
C22_MoveErrorSkipsPair ==
    [][ ((RelPairStep \/ AbsPairStep) /\ lastStep'.res = "error")
        => /\ sigError' = (IF pc = "rel" THEN "MOVE" ELSE "ABS")
           /\ base' = base
           /\ last_angles' = last_angles
           /\ pub' = pub
           /\ pairs' = Tail(pairs)
           /\ pc' = (IF Tail(pairs) = <<>> THEN "listen" ELSE pc)
           /\ running' = running
           /\ q' = q ]_vars

\* In one absolute batch the move of joint 3 raised and the next pair, joint
\* 1, was then moved from the unchanged base.
C22_Witness ==
    /\ prevStep.kind = "abs" /\ prevStep.res = "error" /\ prevStep.joint = 3
    /\ prevStep.after = prevStep.before
    /\ lastStep.kind = "abs" /\ lastStep.res = "moved" /\ lastStep.joint = 1
    /\ proclog # <<>>
    /\ base[3] = prevStep.before
    /\ sigError = "ABS"

----------------------------------------------------------------------------
(* Properties of the connection (checked under SpecQueue and SpecCtl) *)

\* The worker has taken a batch from the queue.
WorkerTook == \E i \in 1..Len(outlog) : outlog[i].by = "worker"

\* C23: when the connection fails, FAILED is published and the worker has
\* returned: no homing, no joint move, no batch taken from the queue, then or
\* later, whatever has been put into the queue.
C23_FailedConnectionDoesNothing ==
    status = "FAILED"
        => /\ pc = "exited"
           /\ ~running
           /\ sigError = "FAILED"
           /\ ~homeSent
           /\ ncmd = 0 /\ driverCmd = NoCmd
           /\ ~WorkerTook
           /\ proclog = <<>>
           /\ arm = HOME_ANGLES

\* The connection has failed and two batches have been put, before it or
\* after it: both are still in the queue, nothing was taken.
C23_Witness ==
    /\ status = "FAILED"
    /\ Len(enqlog) = 2 /\ Len(q) = 2
    /\ outlog = <<>>

\* C24: once CONNECTED has been published the status stays CONNECTED, whatever
\* error comes later (LED, homing, pose read, per-joint move, rejection); and
\* FAILED is published only by the connection step.
C24_OnlyConnectionFails ==
    [][ /\ status = "CONNECTED" => status' = "CONNECTED"
        /\ (status' = "FAILED" /\ status # "FAILED") => pc = "connect" ]_vars

\* A connected controller has emitted a per-joint move error and has gone back
\* to listening.
C24_Witness ==
    /\ status = "CONNECTED"
    /\ lastStep.res = "error"
    /\ sigError \in { "MOVE", "ABS" }
    /\ pc = "listen"

\* C25: the homing step sends the home pose only if each of the six home
\* angles is inside USER_LIMITS of its joint; otherwise nothing is sent, the
\* warning is logged, no error is emitted and the pose kept by the controller
\* is untouched. Either way the worker goes on to the listening loop.
C25_HomingOnlyInsideLimits ==
    [][ pc = "home" =>
          /\ pc' = "listen"
          /\ homeSent' = (\A j \in Joints : InLimits(j, home[j]))
          /\ homeWarn' = ~homeSent'
          /\ ~homeSent' =>
                /\ arm' = arm
                /\ last_angles' = last_angles /\ pub' = pub
                /\ sigError' = sigError
                /\ status' = "CONNECTED" ]_vars

\* With joint 3 of the home pose at 152 (limit 150) the worker has reached the
\* queue without sending the home pose: the arm is where it was.
C25_Witness ==
    /\ home[3] = 15200
    /\ pc = "get"
    /\ ~homeSent /\ homeWarn
    /\ arm[3] = 16000
    /\ status = "CONNECTED"

----------------------------------------------------------------------------
(* Properties of _read_angles (checked under SpecRead) *)

\* A reading the claim counts as valid: a sequence of exactly six numeric
\* values.
SixNumbers(r) == r.seq /\ Len(r.vals) = 6 /\ r.conv

\* C26: a pose read calls get_angles at most 6 times; it returns the first
\* reading that is a sequence of six numeric values, asking no more after it,
\* and it returns None exactly when all six tries gave an invalid reading.
C26_ReadAnglesRetries ==
    rout # NoCall =>
        LET good == { i \in 1..6 : SixNumbers(rin[i]) }
        IN  /\ rout.calls <= 6
            /\ \A i \in good :
                  (\A k \in 1..(i - 1) : k \notin good)
                      => rout.ang = rin[i].vals /\ rout.calls = i
            /\ (rout.ang = None) <=> (good = {})
            /\ good = {} => rout.calls = 6

\* The first try gave no list, the second a list that does not convert, the
\* third a pose, the fourth another pose: the third is returned after three
\* calls.
C26_Witness ==
    /\ rout # NoCall /\ rin # NoCall
    /\ ~rin[1].seq
    /\ rin[2].seq /\ Len(rin[2].vals) = 6 /\ ~rin[2].conv
    /\ SixNumbers(rin[3]) /\ SixNumbers(rin[4])
    /\ rin[4].vals # rin[3].vals
    /\ rout.ang = rin[3].vals
    /\ rout.calls = 3

----------------------------------------------------------------------------
(* Properties of the read at the start of a batch (checked under SpecQueue) *)

\* C27: when the read at the start of a batch gives no reading, the batch is
\* neither dropped nor failed: its pairs are validated against the last known
\* pose, which is the pose stored last (the home pose when none was stored).
C27_BatchFallsBackToLastPose ==
    [][ (pc \in { "rel_read", "abs_read" } /\ pc' # pc /\ batchRd' = "none")
        => /\ base' = last_angles
           /\ last_angles' = last_angles
           /\ pc' = (IF pc = "rel_read" THEN "rel" ELSE "abs")
           /\ pairs' = pairs /\ pairs # <<>>
           /\ sigError' = sigError
           /\ (pub = None => last_angles = home)
           /\ (pub # None => last_angles = pub) ]_vars

\* After joint 3 was moved to 140, a relative batch started without a
\* reading and its first pair was validated against the stored 140, which is
\* not the home pose.
C27_Witness ==
    /\ batchRd = "none"
    /\ lastStep.kind = "rel" /\ lastStep.joint = 3
    /\ lastStep.before = 14000 /\ lastStep.res = "moved"
    /\ home[3] # 14000
    /\ Len(proclog) = 3

----------------------------------------------------------------------------
(* Properties of the recognizer loop (checked under SpecRec) *)

\* C28: a result that is not final triggers the live-text callback and
\* nothing else: no parse, no action list. A final result triggers, in this
\* order, the final-text callback, the parse and the action callback, the last
\* one once and with the list of parsed actions, empty or not; and an action
\* list is emitted at no other time.
C28_OnlyFinalsAreParsed ==
    [][ /\ (sp' # sp /\ sp'.kind = "interim")
            => /\ sp'.calls = <<"on_live">>
               /\ evq' = evq
               /\ sp'.n = sp.n /\ sp'.acts = sp.acts
               /\ glog' = glog /\ q' = q
        /\ (sp' # sp /\ sp'.kind = "final")
            => /\ sp'.n = sp.n + 1
               /\ sp'.calls = <<"on_final", "mode_provider",
                                "parse_commands", "on_action">>
               /\ evq' = Append(evq, sp'.acts)
        /\ Len(evq') > Len(evq)
            => /\ sp'.kind = "final" /\ sp'.n = sp.n + 1
               /\ Len(evq') = Len(evq) + 1 ]_vars

\* A final transcript in which nothing was recognised has been emitted as an
\* empty list, and the interim result that followed has emitted nothing.
C28_Witness ==
    /\ sp.kind = "interim" /\ sp.calls = <<"on_live">>
    /\ sp.n = 1 /\ sp.acts = <<>>
    /\ evq = << <<>> >>

----------------------------------------------------------------------------
(* Properties of the sign of relative commands (checked under SpecParse) *)

\* The decreasing verbs as the closed set is stated.
DecreasingVerbs ==
    { "baja", "decrementa", "quita", "reduce", "disminuye", "restale" }

\* The command was parsed and produced its token.
Parsed == pout # NoCall /\ pout.acts # << >>

\* C29: with no sign token, a matched command said after a decreasing verb
\* gets a negative delta, and after any other verb or no verb a positive one.
C29_VerbDecidesSign ==
    (Parsed /\ pin.sign = "")
        => /\ pin.word \in DecreasingVerbs => pout.acts[1].v < 0
           /\ pin.word \notin DecreasingVerbs => pout.acts[1].v > 0

\* C30: a sign token wins over the verb: with +, mas or positivo the delta is
\* the parsed angle, with -, menos or negativo its negative, whatever the
\* verb is.
C30_SignOverridesVerb ==
    Parsed
        => /\ pout.acts[1].t = "REL" /\ pout.acts[1].j = pin.joint
           /\ pin.sign \in { "+", "mas", "positivo" }
                 => pout.acts[1].v = pin.ang /\ pout.acts[1].v > 0
           /\ pin.sign \in { "-", "menos", "negativo" }
                 => pout.acts[1].v = -pin.ang /\ pout.acts[1].v < 0

\* "baja ... mas 10" gave +10.
C30_Witness ==
    /\ Parsed
    /\ pin.word = "baja" /\ pin.sign = "mas" /\ pin.ang = 1000
    /\ pout.acts[1].v = 1000

----------------------------------------------------------------------------
(* The limit policy as a test on the target alone (checked under SpecVal) *)

\* C36: _validate_relative accepts exactly when base[joint] + delta is inside
\* USER_LIMITS[joint]; the current reading decides the message only, and the
\* last branch (outside the window, delta not correcting) is never taken.
C36_DecisionIsTargetInLimits ==
    vReturned
        => /\ vret.ok <=> vTgtIn
           /\ vret.msg # "nocorrect"
           /\ vret.ok => vret.target = [vcall.base EXCEPT ![vcall.joint] = vTgt]
           /\ vret.msg = "OK" => vCurIn
           /\ vret.msg = "window" => ~vCurIn /\ vCurInWindow
           /\ vret.msg = "toward" => ~vCurInWindow

\* A reading more than 5 degrees above the limit with a delta that brings the
\* joint back inside: accepted as a correction.
C36_Witness ==
    /\ vReturned
    /\ vCur > vLim[2] + 500
    /\ vcall.delta < 0
    /\ vret.ok /\ vret.msg = "toward"

----------------------------------------------------------------------------
(* Properties of the gate across handled lists (checked under SpecGate) *)

\* The tokens of the list just handled are all of the kinds in ts.
OnlyTokens(g, ts) == \A k \in 1..Len(g) : g[k].tok.t \in ts

\* C39: a pending request is forwarded once. Each handled list starts from
\* the pending state the previous one left; a CONFIRM leaves nothing pending,
\* and a CONFIRM that finds nothing pending enqueues nothing, so a list that
\* only confirms after a flush leaves the queue as it was; only HOME and ABS
\* tokens make a request pending; a HOME token met while HOME is pending
\* changes nothing, and the CONFIRM that follows enqueues one HOME batch.
C39_PendingForwardedOnce ==
    [][ (nutter' = nutter + 1 /\ glog' # <<>>)
        => /\ glog'[1].pre.ph = pending_home
           /\ glog'[1].pre.pa = pending_abs
           /\ glog'[1].pre.q = q
           /\ \A i \in 1..Len(glog') :
                LET e == glog'[i]
                IN  /\ e.tok.t = "CONFIRM"
                         => /\ e.post.ph = FALSE /\ e.post.pa = <<>>
                            /\ (~e.pre.ph /\ e.pre.pa = <<>>)
                                  => e.post.q = e.pre.q
                            /\ e.pre.ph
                                  => /\ Len(e.post.q) >= Len(e.pre.q) + 1
                                     /\ e.post.q[Len(e.pre.q) + 1] = HomeBatch
                                     /\ \A k \in (Len(e.pre.q) + 2)
                                                     ..Len(e.post.q) :
                                           e.post.q[k] # HomeBatch
                    /\ (e.tok.t = "HOME" /\ e.pre.rc /\ e.pre.ph)
                         => e.post = e.pre
                    /\ e.tok.t \notin { "HOME", "ABS" }
                         => /\ e.post.ph => e.pre.ph
                            /\ Len(e.post.pa) <= Len(e.pre.pa)
           /\ (~pending_home /\ pending_abs = <<>>
                 /\ OnlyTokens(glog',
                               { "CONFIRM", "CANCEL", "MODE", "CONFREQ" }))
                => /\ q' = q
                   /\ ~pending_home' /\ pending_abs' = <<>> ]_vars

\* HOME was asked for in one transcript and again in the next one, which
\* also confirmed: one HOME batch is on the queue and nothing is pending.
C39_Witness ==
    /\ nutter = 2
    /\ Len(glog) = 2
    /\ glog[1].tok.t = "HOME" /\ glog[1].pre.rc /\ glog[1].pre.ph
    /\ glog[2].tok.t = "CONFIRM"
    /\ q = << HomeBatch >>
    /\ ~pending_home /\ pending_abs = <<>>

\* C40: the tokens of one transcript reach the gate in parser order, so a
\* CANCEL of the same transcript comes right after its CONFIRM and never
\* before it: the CONFIRM has put every pending request on the queue (the
\* pending HOME first, then the pending pairs as one absolute batch), and
\* the CANCEL finds nothing pending and changes nothing.
C40_ConfirmBeforeCancel ==
    \A i \in 1..Len(glog) : \A j \in 1..Len(glog) :
        (glog[i].tok.t = "CONFIRM" /\ glog[j].tok.t = "CANCEL")
            => /\ j = i + 1
               /\ glog[i].post.q
                     = glog[i].pre.q
                       \o (IF glog[i].pre.ph THEN << HomeBatch >> ELSE <<>>)
                       \o (IF glog[i].pre.pa # <<>>
                           THEN << AbsBatch(glog[i].pre.pa) >> ELSE <<>>)
               /\ ~glog[j].pre.ph /\ glog[j].pre.pa = <<>>
               /\ glog[j].post = glog[j].pre

\* A transcript with both phrases arrived while HOME and an absolute pair
\* were pending: both batches are on the queue, and nothing is pending.
C40_Witness ==
    /\ Len(glog) = 2
    /\ glog[1].tok.t = "CONFIRM" /\ glog[2].tok.t = "CANCEL"
    /\ glog[1].pre.ph /\ glog[1].pre.pa # <<>>
    /\ Len(q) = 2 /\ q[1] = HomeBatch /\ IsAbsMsg(q[2])
    /\ ~pending_home /\ pending_abs = <<>>

----------------------------------------------------------------------------
(* Properties of parse_commands on a text (checked under SpecText and
   SpecIntents) *)

TextParsed == pout # NoCall

IsMotion(a) == a.t \in { "ABS", "REL" }

IsGlobal(a) == ~IsMotion(a)

MatchPasses(m) == JointOk(JointOf(m))

\* The motion tokens of the call, and the matches that passed the joint
\* test, both in the order of the call.
MotionPart == SelectSeq(pout.acts, IsMotion)

GlobalPart(acts) == SelectSeq(acts, IsGlobal)

PassedMatches == SelectSeq(pout.ms, MatchPasses)

NegativeSigns == { "-", "menos", "negativo" }

\* C31: in absolute mode each token comes from one passed match, and its
\* target is minus the digits of the angle if the sign group of the match
\* is a negative sign token and the digits of the angle otherwise (a
\* positive sign token or none), whatever the verb group of the match holds.
C31_AbsoluteSignFromToken ==
    (TextParsed /\ pin.mode = "absolute")
        => /\ Len(MotionPart) = Len(PassedMatches)
           /\ \A k \in 1..Len(MotionPart) :
                /\ MotionPart[k].t = "ABS"
                /\ PassedMatches[k].g.sign \in NegativeSigns
                      => /\ MotionPart[k].v = -AngleOf(PassedMatches[k].g.ang)
                         /\ MotionPart[k].v <= 0
                /\ PassedMatches[k].g.sign \notin NegativeSigns
                      => /\ MotionPart[k].v = AngleOf(PassedMatches[k].g.ang)
                         /\ MotionPart[k].v >= 0

\* In absolute mode a match whose verb is "baja" and that has no sign
\* token gave a positive target.
C31_Witness ==
    /\ TextParsed /\ pin.mode = "absolute"
    /\ Len(PassedMatches) = 1 /\ Len(MotionPart) = 1
    /\ PassedMatches[1].g.verb = "baja" /\ PassedMatches[1].g.sign = ""
    /\ MotionPart[1].v > 0

\* The number a joint word stands for: its value if it is made of digits,
\* else its entry in the ordinals, else its entry in the cardinals, else
\* none.
Resolved(w) ==
    IF IsDigit(w) THEN DigitsToInt(w)
    ELSE IF w \in DOMAIN ORDINALS THEN ORDINALS[w]
    ELSE IF w \in DOMAIN CARDINALS THEN CARDINALS[w]
    ELSE NoInt

\* C32: every motion token has a joint in 1..6. A match whose joint word
\* gives no number or a number outside 1..6 gives no token, and the matches
\* after it still give theirs: the motion tokens are, in order, those of
\* the matches whose joint is in 1..6.
C32_JointInRange ==
    TextParsed
        => /\ \A k \in 1..Len(pout.acts) :
                IsMotion(pout.acts[k]) => pout.acts[k].j \in 1..6
           /\ Len(MotionPart) = Len(PassedMatches)
           /\ \A k \in 1..Len(MotionPart) :
                MotionPart[k].j = JointOf(PassedMatches[k])
           /\ \A k \in 1..Len(pout.ms) :
                MatchPasses(pout.ms[k])
                    <=> Resolved(pout.ms[k].g.joint) \in 1..6

\* A match on joint 7 or on "septima" gave no token, and a later match on a
\* joint in 1..6 gave one.
C32_Witness ==
    /\ TextParsed
    /\ \E i \in 1..Len(pout.ms) : \E k \in (i + 1)..Len(pout.ms) :
          /\ pout.ms[i].g.joint \in { "7", "septima" }
          /\ MatchPasses(pout.ms[k])
    /\ Len(MotionPart) >= 1
    /\ \A k \in 1..Len(MotionPart) : MotionPart[k].j \in 1..6

\* The place of a token in the scan order of the global intents; the
\* motion tokens come last.
ScanRank(a) ==
    CASE a.t = "MODE" -> 1
      [] a.t = "HOME" -> 2
      [] a.t = "CONFIRM" -> 3
      [] a.t = "CANCEL" -> 4
      [] a.t = "CONFREQ" /\ a.arg = "True" -> 5
      [] a.t = "CONFREQ" /\ a.arg = "False" -> 6
      [] OTHER -> 7

OtherMode(m) == IF m = "absolute" THEN "relative" ELSE "absolute"

\* C33: the global tokens come in the scan order MODE, HOME, CONFIRM,
\* CANCEL, CONFREQ(True), CONFREQ(False), each at most once, before every
\* motion token, and they are the same in the other mode.
C33_GlobalsInScanOrder ==
    TextParsed
        => /\ \A i \in 1..Len(pout.acts) : \A k \in (i + 1)..Len(pout.acts) :
                \/ ScanRank(pout.acts[i]) < ScanRank(pout.acts[k])
                \/ IsMotion(pout.acts[i]) /\ IsMotion(pout.acts[k])
           /\ GlobalPart(pout.acts)
                 = GlobalPart(parse_commands(pin.text, OtherMode(pin.mode)))

\* A motion command was said first and the mode phrase after it: the MODE
\* token comes first.
C33_Witness ==
    /\ TextParsed
    /\ pin.text = "junta 4 a posicion 30 modo relativo"
    /\ pin.mode = "absolute"
    /\ pout.acts
          = << Tok("MODE", "relative", 0, 0), Tok("ABS", "", 4, 3000) >>

\* Whether two matches share a character.
Overlap(m1, m2) == m1.st < m2.e /\ m2.st < m1.e

\* How many times x occurs in sq.
Times(sq, x) == Cardinality({ k \in 1..Len(sq) : sq[k] = x })

\* C34: the matches of the call are those of the three absolute or four
\* relative patterns, all of them, in non-decreasing order of start, and
\* each match whose joint passes gives its own token: nothing is dropped
\* as a duplicate.
C34_MergedInStartOrder ==
    TextParsed
        => /\ Len(Grammars(pin.mode))
                 = IF pin.mode = "absolute" THEN 3 ELSE 4
           /\ Len(pout.ms) = Len(pout.found)
           /\ \A i \in 1..Len(pout.found) :
                Times(pout.ms, pout.found[i])
                    = Times(pout.found, pout.found[i])
           /\ \A k \in 1..(Len(pout.ms) - 1) :
                pout.ms[k].st <= pout.ms[k + 1].st
           /\ Len(MotionPart) = Len(PassedMatches)
           /\ \A k \in 1..Len(MotionPart) :
                MotionPart[k] = MotionToken(PassedMatches[k], pin.mode)

\* Two patterns matched overlapping spans for the same joint, and the token
\* is there twice.
C34_Witness ==
    /\ TextParsed
    /\ Len(PassedMatches) = 2
    /\ Overlap(PassedMatches[1], PassedMatches[2])
    /\ Len(MotionPart) = 2
    /\ MotionPart[1] = MotionPart[2]

\* C35: the three reference transcripts give exactly the stated token.
C35_ReferenceUtterances ==
    TextParsed
        => /\ (pin.text = "mueve la junta 3 a 15 grados"
                 /\ pin.mode = "relative")
                => pout.acts = << Tok("REL", "", 3, 1500) >>
           /\ (pin.text = "baja la junta 2 20 grados" /\ pin.mode = "relative")
                => pout.acts = << Tok("REL", "", 2, -2000) >>
           /\ (pin.text = "junta 4 a posicion 30" /\ pin.mode = "absolute")
                => pout.acts = << Tok("ABS", "", 4, 3000) >>

\* The third reference transcript was parsed in absolute mode.
C35_Witness ==
    /\ TextParsed
    /\ pin.text = "junta 4 a posicion 30" /\ pin.mode = "absolute"
    /\ pout.acts = << Tok("ABS", "", 4, 3000) >>

----------------------------------------------------------------------------
(* Properties of start() and stop() (checked under SpecRestart) *)

\* C37: at most one worker thread is alive at any time.
C37_SingleWorker == Cardinality(Alive) <= 1

----------------------------------------------------------------------------
(* Properties of the queue of a running controller (checked under SpecLive) *)

\* The worker stopped for a reason the claims about a healthy run leave out:
\* the connection failed, or a driver call raised where _loop does not catch.
WorkerLost == status = "FAILED" \/ pc = "crashed"

RECURSIVE PairsUpTo(_)
\* How many pairs the first k batches put on the queue hold.
PairsUpTo(k) == IF k = 0 THEN 0 ELSE PairsUpTo(k - 1) + Len(enqlog[k].pairs)

\* The k-th batch put on the queue was taken by the worker, the worker is
\* through with it, and all its pairs were gone through.
Processed(k) ==
    /\ Len(enqlog) >= k
    /\ Len(outlog) >= k
    /\ outlog[k].by = "worker"
    /\ outlog[k].batch = [msg |-> enqlog[k].msg, pairs |-> enqlog[k].pairs]
    /\ Len(outlog) > k \/ pc \in { "listen", "get" }
    /\ Len(proclog) >= PairsUpTo(k)

\* C38: once start() was called, every batch put on the queue (before the
\* start, while connecting or homing, or while another batch is executed) is
\* eventually taken by the loop and gone through, unless the connection
\* failed or a driver call raised outside a try block.
C38_EnqueuedEventuallyProcessed ==
    \A k \in 1..MaxPut :
        (Len(enqlog) >= k /\ pc # "idle") ~> (Processed(k) \/ WorkerLost)

\* Two batches were put, the second while the first was being executed, and
\* the healthy worker is through with both.
C38_Witness ==
    /\ ~WorkerLost
    /\ Len(enqlog) = 2
    /\ enqlog[2].busy
    /\ Processed(1) /\ Processed(2)
    /\ pc = "listen" /\ q = <<>>

====
